---- MODULE Spec2Model ----
(***************************************************************************)
(* Model of the radiology checklist / report pipeline of rad-rag-qca.      *)
(*                                                                         *)
(*   ui/main.py               Streamlit session: Case Input, Interactive   *)
(*                            Checklist and Report Generation pages        *)
(*   ct_ui_new.py             the earlier variant of the visible list      *)
(*   src/report_generator.py  RadiologyReportGenerator                     *)
(*   config/prompts.py        FALLBACK_QUESTIONS, TECHNIQUE_TEMPLATES      *)
(*                                                                         *)
(* Python values are modelled as follows.  A dict with a fixed key set is  *)
(* a record; d.get(k, default) is Get(d, k, default).  A dict that grows   *)
(* (st.session_state.answers) is a sequence of [key, val] pairs in         *)
(* insertion order, so that iteration order and overwriting are those of   *)
(* Python.  A session_state key that may be absent, and None, are a        *)
(* sequence of length 0 (absent) or 1 (present).  Free text typed by the   *)
(* user is a sequence of characters so that str.strip() is computed.       *)
(***************************************************************************)
EXTENDS Integers, Sequences, FiniteSets, TLC

VARIABLES
    case_metadata,        \* st.session_state.case_metadata (absent: <<>>)
    checklist_generated,  \* st.session_state.checklist_generated
    checklist,            \* st.session_state.checklist (None: <<>>)
    questions_generated,  \* st.session_state.questions_generated
    generated_questions,  \* st.session_state.generated_questions
    screening_answers,    \* st.session_state.screening_answers
    current_question,     \* st.session_state.current_question
    answers,              \* st.session_state.answers
    findings,             \* st.session_state.findings (absent: <<>>)
    generated_report,     \* st.session_state.generated_report (absent: <<>>)
    observations_call,    \* last call of generate_observations_section
    impression_call,      \* last call of generate_impression_section
    checklist_call,       \* the call of generate_checklist made by the last
                          \* step (<<>> when that step made none)
    refined,              \* the positions n with st.session_state['refined_<n>']
    fallback_questions,   \* config.prompts.FALLBACK_QUESTIONS, the list object
                          \* of the module, one for all sessions of the process
    questions_shared,     \* generated_questions is that list object
    qa_session            \* an InteractiveQASystem and the result of its last call

vars == <<case_metadata, checklist_generated, checklist, questions_generated,
          generated_questions, screening_answers, current_question, answers,
          findings, generated_report, observations_call, impression_call,
          checklist_call, refined, fallback_questions, questions_shared,
          qa_session>>

session_vars == <<checklist_generated, checklist, questions_generated,
                  generated_questions, screening_answers, current_question,
                  answers>>

report_vars == <<generated_report, observations_call, impression_call>>

refinement_vars == <<refined, fallback_questions, questions_shared>>

----------------------------------------------------------------------------
(* Python helpers *)

\* dict.get(key, default)
Get(d, key, default) ==
    IF key \in DOMAIN d THEN d[key] ELSE default

\* None / an absent session_state key, and a present value
None == <<>>

Some(v) == <<v>>

\* None where a string is expected: equal to no string the program handles
NoneStr == "<None>"

\* the characters of the free text the model types
Space == " "

IsSpace(c) == c = Space

RECURSIVE lstrip(_)
lstrip(s) ==
    IF s = <<>> THEN <<>>
    ELSE IF IsSpace(Head(s)) THEN lstrip(Tail(s)) ELSE s

RECURSIVE rstrip(_)
rstrip(s) ==
    IF s = <<>> THEN <<>>
    ELSE IF IsSpace(s[Len(s)]) THEN rstrip(SubSeq(s, 1, Len(s) - 1)) ELSE s

\* str.strip()
strip(s) == rstrip(lstrip(s))

\* d[k] = v : an existing key keeps its place, a new key is appended
DictSet(d, k, v) ==
    IF \E i \in 1..Len(d) : d[i].key = k
    THEN [i \in 1..Len(d) |-> IF d[i].key = k THEN [key |-> k, val |-> v] ELSE d[i]]
    ELSE Append(d, [key |-> k, val |-> v])

\* d[k] for a key that is present
DictGet(d, k) ==
    d[CHOOSE i \in 1..Len(d) : d[i].key = k].val

\* list(d.values()), in insertion order
DictValues(d) ==
    [i \in 1..Len(d) |-> d[i].val]

----------------------------------------------------------------------------
(* config/prompts.py *)

FALLBACK_QUESTIONS ==
    << [type |-> "screening", id |-> "screening_0",
        category |-> "General Assessment", subcategory |-> "Overall Evaluation",
        question |-> "Are there any overall abnormalities visible on the study?"],
       [type |-> "specific", id |-> "specific_0_0",
        category |-> "General Assessment", subcategory |-> "Overall Evaluation",
        question |-> "Are there any masses or tumors present?",
        follow_up |-> "If present, describe: location, size (in mm/cm), characteristics (solid/cystic/mixed), margins, and associated findings.",
        depends_on |-> "screening_0"],
       [type |-> "specific", id |-> "specific_0_1",
        category |-> "General Assessment", subcategory |-> "Overall Evaluation",
        question |-> "Are there any fractures or bone abnormalities?",
        follow_up |-> "If present, describe: bones involved, location, displacement, alignment, and characteristics.",
        depends_on |-> "screening_0"],
       [type |-> "specific", id |-> "specific_0_2",
        category |-> "General Assessment", subcategory |-> "Overall Evaluation",
        question |-> "Are there any fluid collections?",
        follow_up |-> "If present, describe: location, size, density/signal characteristics, and associated findings.",
        depends_on |-> "screening_0"],
       [type |-> "specific", id |-> "specific_0_3",
        category |-> "General Assessment", subcategory |-> "Overall Evaluation",
        question |-> "Are the soft tissues normal?",
        follow_up |-> "If abnormal, describe: location, size, characteristics, and nature of abnormality.",
        depends_on |-> "screening_0"] >>

TECHNIQUE_TEMPLATES ==
    [ct_chest |-> "Volume scan of chest was done without IV contrast.",
     ct_head |-> "Axial CT images of the head were obtained without IV contrast.",
     ct_lumbar_spine |-> "Axial and sagittal CT images of the lumbar spine were obtained.",
     ct_cervical_spine |-> "Axial and sagittal CT images of the cervical spine were obtained.",
     ct_thoracic_spine |-> "Axial and sagittal CT images of the thoracic spine were obtained.",
     ct_soft_tissue_neck |-> "Axial CT images of the neck soft tissues were obtained.",
     ct_temporal_bone |-> "High-resolution CT images of the temporal bones were obtained."]

----------------------------------------------------------------------------
(* The language model's answers to question compilation.  The model is an   *)
(* external function; the lists below are answers that follow the output   *)
(* format of HIERARCHICAL_QUESTIONS_SYSTEM_PROMPT.                         *)

ScreeningQ(n, cat, sub, text) ==
    [type |-> "screening", id |-> n, category |-> cat, subcategory |-> sub,
     question |-> text]

SpecificQ(n, cat, sub, text, dep) ==
    [type |-> "specific", id |-> n, category |-> cat, subcategory |-> sub,
     question |-> text, follow_up |-> "If present, describe: location, size",
     depends_on |-> dep]

\* two subcategories, each screening question followed by its own items
LungsPleuraQuestions ==
    << ScreeningQ("screening_0", "Lungs", "Parenchyma", "Are there any abnormalities in the Parenchyma?"),
       SpecificQ("specific_0_0", "Lungs", "Parenchyma", "Are there nodules?", "screening_0"),
       SpecificQ("specific_0_1", "Lungs", "Parenchyma", "Is there an effusion?", "screening_0"),
       ScreeningQ("screening_1", "Pleura", "Effusion", "Are there any abnormalities in the Effusion?"),
       SpecificQ("specific_1_0", "Pleura", "Effusion", "Is there a pneumothorax?", "screening_1") >>

\* the same format, the items listed after all screening questions and in
\* another order than their screening questions
BrainSpineQuestions ==
    << ScreeningQ("screening_0", "Brain", "General Findings", "Are there any abnormalities in General Findings?"),
       ScreeningQ("screening_1", "Spine", "Alignment", "Are there any abnormalities in the Alignment?"),
       SpecificQ("specific_1_0", "Spine", "Alignment", "Is there a listhesis?", "screening_1"),
       SpecificQ("specific_0_0", "Brain", "General Findings", "Is there any hemorrhage present?", "screening_0") >>

\* the example output of the prompt (HIERARCHICAL_QUESTIONS_EXAMPLE)
ExampleQuestions ==
    << [type |-> "screening", id |-> "screening_0",
        category |-> "Brain", subcategory |-> "General Findings",
        question |-> "Are there any abnormalities in General Findings?"],
       [type |-> "specific", id |-> "specific_0_0",
        category |-> "Brain", subcategory |-> "General Findings",
        question |-> "Are there any mass lesions or tumors?",
        follow_up |-> "If present, describe: location (specific lobe/region), size (in mm/cm), signal characteristics (T1/T2/FLAIR), morphology (solid/cystic), margins, enhancement pattern, mass effect, and associated findings.",
        depends_on |-> "screening_0"],
       [type |-> "specific", id |-> "specific_0_1",
        category |-> "Brain", subcategory |-> "General Findings",
        question |-> "Is there any hemorrhage present?",
        follow_up |-> "If present, describe: type (intraparenchymal/subarachnoid/subdural/epidural), location, size, signal characteristics indicating age of blood, mass effect, and associated findings.",
        depends_on |-> "screening_0"] >>

CompiledLists == {ExampleQuestions, LungsPleuraQuestions, BrainSpineQuestions}

\* json.loads yields dicts (records here) and other values; a value that
\* is not a dict is a record with the field json_type
JsonString(text) == [json_type |-> "str", value |-> text]

\* isinstance(q, dict)
isinstance_dict(q) == "json_type" \notin DOMAIN q

\* lists the model may answer with and for which the compiler has no test:
\* a list of strings, a list of dicts that are no question records, and a
\* list of question records whose depends_on do not follow the prompt: one
\* names the screening question of another subcategory, one names no
\* screening question of the list
NonRecordList == << JsonString("Are there any abnormalities?") >>

UntypedList == << [text |-> "Are there any abnormalities?"] >>

MislinkedQuestions ==
    << ScreeningQ("screening_0", "Lungs", "Parenchyma", "Are there any abnormalities in the Parenchyma?"),
       ScreeningQ("screening_1", "Pleura", "Pleural Space", "Are there any abnormalities in the Pleural Space?"),
       SpecificQ("specific_1_0", "Pleura", "Pleural Space", "Is there an effusion?", "screening_0"),
       SpecificQ("specific_1_1", "Pleura", "Pleural Space", "Is there a pneumothorax?", "screening_2") >>

\* question records of which two screening questions have the same id
DuplicateIdQuestions ==
    << ScreeningQ("screening_0", "Lungs", "Parenchyma", "Are there any abnormalities in the Parenchyma?"),
       ScreeningQ("screening_0", "Pleura", "Pleural Space", "Are there any abnormalities in the Pleural Space?"),
       SpecificQ("specific_0_0", "Lungs", "Parenchyma", "Are there nodules?", "screening_0") >>

UnvalidatedLists ==
    {NonRecordList, UntypedList, MislinkedQuestions, DuplicateIdQuestions}

\* what llm.invoke and json.loads make of one compilation request
LLMFailures ==
    {[kind |-> "raise", value |-> <<>>],
     [kind |-> "bad_json", value |-> <<>>],
     [kind |-> "not_list", value |-> <<>>],
     [kind |-> "list", value |-> <<>>]}

LLMList(l) == [kind |-> "list", value |-> l]

\* every outcome: the Case Input and Interactive Checklist pages are
\* explored under all of them
LLMCompileResponses == LLMFailures \cup {LLMList(l) : l \in CompiledLists}

\* the whole application, Report Generation page included, is explored
\* with the model answering the prompt's example
LLMExampleResponses == {LLMList(ExampleQuestions)}

\* every outcome, the lists the compiler does not test included
LLMUnvalidatedResponses ==
    LLMFailures \cup {LLMList(l) : l \in UnvalidatedLists \cup {ExampleQuestions}}

----------------------------------------------------------------------------
(* ui/main.py: question compilation *)

\* ct_ui_new.py: the list its own get_fallback_questions builds
get_fallback_questions_ct_ui_new ==
    << [type |-> "screening", id |-> "screening_0",
        category |-> "General Assessment", subcategory |-> "Overall Evaluation",
        question |-> "Are there any overall abnormalities visible on the study?"],
       [type |-> "specific", id |-> "specific_0_0",
        category |-> "General Assessment", subcategory |-> "Overall Evaluation",
        question |-> "Are there any masses or tumors present?",
        follow_up |-> "If present, describe: location, size (in mm/cm), characteristics (solid/cystic/mixed), margins, and associated findings.",
        depends_on |-> "screening_0"],
       [type |-> "specific", id |-> "specific_0_1",
        category |-> "General Assessment", subcategory |-> "Overall Evaluation",
        question |-> "Are there any fractures or bone abnormalities?",
        follow_up |-> "If present, describe: bones involved, location, displacement, alignment, and characteristics.",
        depends_on |-> "screening_0"],
       [type |-> "specific", id |-> "specific_0_2",
        category |-> "General Assessment", subcategory |-> "Overall Evaluation",
        question |-> "Are there any fluid collections?",
        follow_up |-> "If present, describe: location, size, density/signal characteristics, and associated findings.",
        depends_on |-> "screening_0"],
       [type |-> "specific", id |-> "specific_0_3",
        category |-> "General Assessment", subcategory |-> "Overall Evaluation",
        question |-> "Are the soft tissues normal?",
        follow_up |-> "If abnormal, describe: location, size, characteristics, and nature of abnormality.",
        depends_on |-> "screening_0"] >>

\* mutant of get_fallback_questions: the last item names another screening
\* question
get_fallback_questions_mislinked ==
    [i \in 1..Len(fallback_questions) |->
        IF i = Len(fallback_questions)
        THEN [fallback_questions[i] EXCEPT !.depends_on = "screening_1"]
        ELSE fallback_questions[i]]

\* return FALLBACK_QUESTIONS: the list object of config.prompts, not a copy
get_fallback_questions == fallback_questions

\* the compiler returned the list object of config.prompts
returns_fallback_questions(response) ==
    \/ response.kind \in {"raise", "bad_json", "not_list"}
    \/ Len(response.value) = 0

generate_hierarchical_questions_from_checklist(response) ==
    IF response.kind = "raise" THEN get_fallback_questions
    ELSE IF response.kind = "bad_json" THEN get_fallback_questions
    ELSE IF response.kind = "not_list" THEN get_fallback_questions
    ELSE IF Len(response.value) = 0 THEN get_fallback_questions
    ELSE response.value

----------------------------------------------------------------------------
(* ui/main.py: the visible question list *)

screening_questions(hierarchical_questions) ==
    SelectSeq(hierarchical_questions, LAMBDA q : isinstance_dict(q) /\ Get(q, "type", NoneStr) = "screening")

\* mutant of specific_qs: the dependency is not compared
specific_qs_any_dependency(hierarchical_questions, screening_id) ==
    SelectSeq(hierarchical_questions, LAMBDA q : Get(q, "type", NoneStr) = "specific")

specific_qs(hierarchical_questions, screening_id) ==
    SelectSeq(hierarchical_questions,
              LAMBDA q : /\ isinstance_dict(q)
                         /\ Get(q, "type", NoneStr) = "specific"
                         /\ Get(q, "depends_on", NoneStr) = screening_id)

\* mutant of extend_all_questions: any recorded answer opens the block
RECURSIVE extend_all_questions_if_answered(_, _, _)
extend_all_questions_if_answered(screenings, hierarchical_questions, sa) ==
    IF screenings = <<>> THEN <<>>
    ELSE LET screening_q == Head(screenings)
             screening_id == Get(screening_q, "id", "")
             block == IF screening_id \in DOMAIN sa
                      THEN specific_qs(hierarchical_questions, screening_id)
                      ELSE <<>>
         IN  <<screening_q>> \o block
             \o extend_all_questions_if_answered(Tail(screenings),
                                                 hierarchical_questions, sa)

\* the loop over screening_questions: each one, then its dependents if the
\* recorded answer is 'Yes'
RECURSIVE extend_all_questions(_, _, _)
extend_all_questions(screenings, hierarchical_questions, sa) ==
    IF screenings = <<>> THEN <<>>
    ELSE LET screening_q == Head(screenings)
             screening_id == Get(screening_q, "id", "")
             block == IF screening_id \in DOMAIN sa /\ sa[screening_id] = "Yes"
                      THEN specific_qs(hierarchical_questions, screening_id)
                      ELSE <<>>
         IN  <<screening_q>> \o block
             \o extend_all_questions(Tail(screenings), hierarchical_questions, sa)

\* mutant of all_questions: the specific questions are appended after all
\* screening questions instead of after their own
all_questions_dependents_last(hierarchical_questions, sa) ==
    screening_questions(hierarchical_questions)
    \o SelectSeq(hierarchical_questions,
                 LAMBDA q : /\ Get(q, "type", NoneStr) = "specific"
                            /\ Get(q, "depends_on", "") \in DOMAIN sa
                            /\ sa[Get(q, "depends_on", "")] = "Yes")

all_questions(hierarchical_questions, sa) ==
    extend_all_questions(screening_questions(hierarchical_questions),
                         hierarchical_questions, sa)

(* ct_ui_new.py: all screening questions first, then every specific question *)
(* whose screening question was answered 'Yes', in list order              *)
all_questions_ct_ui_new(hierarchical_questions, sa) ==
    SelectSeq(hierarchical_questions, LAMBDA q : Get(q, "type", NoneStr) = "screening")
    \o SelectSeq(hierarchical_questions,
                 LAMBDA q : /\ Get(q, "type", NoneStr) = "specific"
                            /\ Get(q, "depends_on", "") \in DOMAIN sa
                            /\ sa[Get(q, "depends_on", "")] = "Yes")

----------------------------------------------------------------------------
(* src/report_generator.py: RadiologyReportGenerator *)

NoDetailsMarker == <<"Present (no additional details provided)">>

NoAbnormalityText == "No significant abnormalities identified on the current study."

ObservationsErrorText == "Error generating observations section."

ImpressionErrorText == "Error generating impression section."

\* response.content of a model call that returned
ObservationsLLMText == "<observations written by the model>"

ImpressionLLMText == "<impression written by the model>"

generate_technique_section(mod_study) ==
    IF mod_study \in DOMAIN TECHNIQUE_TEMPLATES
    THEN TECHNIQUE_TEMPLATES[mod_study]
    ELSE "CT images of {mod_study} were obtained."

\* the entry appended to findings_by_region for one finding
positive_entry(finding) ==
    LET details_text == strip(Get(finding, "details", <<>>))
    IN  [question |-> Get(finding, "question", ""),
         details |-> IF details_text = <<>> THEN NoDetailsMarker ELSE details_text]

\* mutant of findings_by_region: a finding without details is left out
findings_by_region_detailed_only(fs) ==
    LET kept == SelectSeq(fs, LAMBDA f : strip(Get(f, "details", <<>>)) # <<>>)
        regions == {Get(kept[i], "subcategory", "Other") : i \in 1..Len(kept)}
    IN  [region \in regions |->
            LET mine == SelectSeq(kept, LAMBDA f : Get(f, "subcategory", "Other") = region)
            IN  [i \in 1..Len(mine) |-> positive_entry(mine[i])]]

\* "Group positive findings by subcategory": every element of findings
findings_by_region(fs) ==
    LET regions == {Get(fs[i], "subcategory", "Other") : i \in 1..Len(fs)}
    IN  [region \in regions |->
            LET mine == SelectSeq(fs, LAMBDA f : Get(f, "subcategory", "Other") = region)
            IN  [i \in 1..Len(mine) |-> positive_entry(mine[i])]]

\* "Group negative findings by subcategory": the 'No' records of all_answers
negative_findings_by_region(all_answers) ==
    LET nos == SelectSeq(all_answers, LAMBDA a : Get(a, "answer", NoneStr) = "No")
        regions == {Get(nos[i], "subcategory", "Other") : i \in 1..Len(nos)}
    IN  [region \in regions |->
            LET mine == SelectSeq(nos, LAMBDA a : Get(a, "subcategory", "Other") = region)
            IN  [i \in 1..Len(mine) |-> [question |-> Get(mine[i], "question", "")]]]

\* the call record and the returned text; llm is "ok" or "raise"
generate_observations_section(fs, all_answers, llm) ==
    [findings |-> fs,
     all_answers |-> all_answers,
     findings_by_region |-> findings_by_region(fs),
     negative_findings_by_region |-> negative_findings_by_region(all_answers),
     result |-> IF llm = "ok" THEN ObservationsLLMText ELSE ObservationsErrorText]

impression_line(f) ==
    LET details == strip(Get(f, "details", <<>>))
    IN  [question |-> Get(f, "question", ""),
         details |-> IF details # <<>> THEN details ELSE <<"Present">>]

generate_impression_section(fs, llm) ==
    LET positive_findings == SelectSeq(fs, LAMBDA f : Get(f, "answer", NoneStr) = "Yes")
    IN  IF positive_findings = <<>>
        THEN [findings |-> fs, invoked |-> FALSE, findings_text |-> <<>>,
              result |-> NoAbnormalityText]
        ELSE [findings |-> fs, invoked |-> TRUE,
              findings_text |-> [i \in 1..Len(positive_findings) |->
                                    impression_line(positive_findings[i])],
              result |-> IF llm = "ok" THEN ImpressionLLMText ELSE ImpressionErrorText]

\* mutant of generate_complete_report: one failed section fails both
generate_complete_report_shared_failure(cm, fs, all_answers_arg, obs_llm, imp_llm) ==
    LET mod_study == Get(cm, "mod_study", "")
        all_answers == IF all_answers_arg = None THEN fs ELSE all_answers_arg[1]
        llm == IF obs_llm = "raise" \/ imp_llm = "raise" THEN "raise" ELSE "ok"
        observations == generate_observations_section(fs, all_answers, llm)
        impression == generate_impression_section(fs, llm)
    IN  [observations_call |-> observations,
         impression_call |-> impression,
         report |-> [case_id |-> Get(cm, "case_id", "case_<now>"),
                     study_type |-> mod_study,
                     report |-> [history |-> Get(cm, "clinical_history", "Not specified"),
                                 technique |-> generate_technique_section(mod_study),
                                 observations |-> observations.result,
                                 impression |-> impression.result],
                     findings |-> fs]]

\* all_answers is None (<<>>) or Some(list)
generate_complete_report(cm, fs, all_answers_arg, obs_llm, imp_llm) ==
    LET mod_study == Get(cm, "mod_study", "")
        all_answers == IF all_answers_arg = None THEN fs ELSE all_answers_arg[1]
        observations == generate_observations_section(fs, all_answers, obs_llm)
        impression == generate_impression_section(fs, imp_llm)
    IN  [observations_call |-> observations,
         impression_call |-> impression,
         report |-> [case_id |-> Get(cm, "case_id", "case_<now>"),
                     study_type |-> mod_study,
                     report |-> [history |-> Get(cm, "clinical_history", "Not specified"),
                                 technique |-> generate_technique_section(mod_study),
                                 observations |-> observations.result,
                                 impression |-> impression.result],
                     findings |-> fs]]

----------------------------------------------------------------------------
(* ui/main.py: what the user can type and choose *)

\* the free text of the details box: empty, blank, text, text in blanks
DetailInputs == { <<>>, <<Space>>, <<"a">>, <<Space, "a", Space>> }

AnswerInputs == {"Yes", "No"}

CaseIds == {"case_A", "case_B"}

AgeInputs == {"", "65"}

\* the study type chosen in the selectbox: one per case of the model
StudyOf(case_id) == IF case_id = "case_B" THEN "ct_head" ELSE "ct_chest"

CaseMetadata(case_id, age) ==
    [case_id |-> case_id, age |-> age, gender |-> "Male",
     clinical_history |-> "Chest pain and shortness of breath",
     mod_study |-> StudyOf(case_id)]

----------------------------------------------------------------------------
(* src/checklist_generator.py: RadiologyChecklistGenerator *)

\* the checklist the model is asked for: categories, subcategories, items
Checklist(cm) ==
    [checklist |->
        << [category |-> "Lungs",
            subcategories |-> << [name |-> "Parenchyma",
                                  items |-> <<"Mass lesions or tumors">>] >>] >>]

\* what vector_db.get_chunks_by_study_only does: it raises, or returns
\* nothing, or a result without documents, or a result with documents
StoreOutcomes ==
    {[kind |-> "raise", documents |-> <<>>],
     [kind |-> "none", documents |-> <<>>],
     [kind |-> "results", documents |-> <<>>],
     [kind |-> "results", documents |-> <<"protocol chunk">>]}

get_study_chunks(store) ==
    IF store.kind = "raise" THEN <<>>
    ELSE IF store.kind = "results" /\ store.documents # <<>> THEN store.documents
    ELSE <<>>

\* what llm.invoke and json.loads make of the checklist request: the call
\* raises, the text does not parse, or it parses to a value: the checklist
\* asked for, a checklist without categories, a dict without the
\* 'checklist' key
ChecklistLLMResponses(cm) ==
    {[kind |-> "raise", value |-> Checklist(cm)],
     [kind |-> "bad_json", value |-> Checklist(cm)],
     [kind |-> "json", value |-> Checklist(cm)],
     [kind |-> "json", value |-> [checklist |-> <<>>]],
     [kind |-> "json", value |-> [study |-> cm.mod_study]]}

\* mutant of generate_checklist: the model is asked even without chunks
generate_checklist_without_chunk_test(cm, store, llm) ==
    LET study_chunks == get_study_chunks(store)
    IN  IF llm.kind = "raise"
        THEN [study_chunks |-> study_chunks, llm_calls |-> 1,
              result |-> [error |-> <<"Failed to generate checklist: ", "<exception>">>]]
        ELSE IF llm.kind = "bad_json"
        THEN [study_chunks |-> study_chunks, llm_calls |-> 1,
              result |-> [error |-> <<"Failed to generate valid checklist JSON">>]]
        ELSE [study_chunks |-> study_chunks, llm_calls |-> 1, result |-> llm.value]

\* the chunks retrieved, the number of model calls made, and the result
generate_checklist(cm, store, llm) ==
    LET mod_study == Get(cm, "mod_study", "")
        study_chunks == get_study_chunks(store)
    IN  IF study_chunks = <<>>
        THEN [study_chunks |-> study_chunks, llm_calls |-> 0,
              result |-> [error |-> <<"No chunks found for study: ", mod_study>>]]
        ELSE IF llm.kind = "raise"
        THEN [study_chunks |-> study_chunks, llm_calls |-> 1,
              result |-> [error |-> <<"Failed to generate checklist: ", "<exception>">>]]
        ELSE IF llm.kind = "bad_json"
        THEN [study_chunks |-> study_chunks, llm_calls |-> 1,
              result |-> [error |-> <<"Failed to generate valid checklist JSON">>]]
        ELSE [study_chunks |-> study_chunks, llm_calls |-> 1, result |-> llm.value]

----------------------------------------------------------------------------
(* simple_qa_system.py: the local question compiler.  The texts it searches  *)
(* are sequences of characters, so that 'word in text' and lower() are       *)
(* computed.                                                                 *)

\* sub in text
Contains(sub, text) ==
    \E i \in 1..(Len(text) - Len(sub) + 1) : SubSeq(text, i, i + Len(sub) - 1) = sub

\* the upper-case letters of the texts of the model
UpperCase ==
    [A |-> "a", C |-> "c", F |-> "f", I |-> "i", L |-> "l", M |-> "m", N |-> "n",
     Q |-> "q", R |-> "r", Y |-> "y"]

\* item.lower()
lower(text) ==
    [i \in 1..Len(text) |->
        IF text[i] \in DOMAIN UpperCase THEN UpperCase[text[i]] ELSE text[i]]

skip_categories ==
    {<<"I", "n", "i", "t", "i", "a", "l", " ", "A", "s", "s", "e", "s", "s", "m", "e", "n", "t">>,
     <<"F", "i", "n", "a", "l", " ", "C", "h", "e", "c", "k", "s">>,
     <<"I", "m", "a", "g", "e", " ", "Q", "u", "a", "l", "i", "t", "y">>}

skip_words ==
    {<<"s", "c", "r", "o", "l", "l">>,
     <<"c", "o", "m", "p", "a", "r", "e">>,
     <<"r", "e", "v", "i", "e", "w">>,
     <<"c", "h", "e", "c", "k">>,
     <<"a", "s", "s", "e", "s", "s">>,
     <<"e", "v", "a", "l", "u", "a", "t", "e">>,
     <<"e", "x", "a", "m", "i", "n", "e">>,
     <<"l", "o", "o", "k", " ", "f", "o", "r">>,
     <<"e", "n", "s", "u", "r", "e">>,
     <<"c", "o", "n", "f", "i", "r", "m">>}

\* any(word in item_lower for word in skip_words)
IsProcedural(item) == \E word \in skip_words : Contains(word, lower(item))

\* a specific question of the local compiler
ClinicalQuestion(category, subcategory, question, follow_up, depends_on_id) ==
    Some([level |-> 2, type |-> "specific", category |-> category,
          subcategory |-> subcategory, question |-> question,
          follow_up |-> follow_up, depends_on |-> depends_on_id])

\* Some(question), or None for an item that is skipped
convert_item_to_clinical_question(item, category, subcategory, depends_on_id) ==
    LET item_lower == lower(item)
    IN  IF ~IsProcedural(item) THEN None
        ELSE IF Contains(<<"t", "r", "a", "c", "h", "e", "a">>, item_lower)
        THEN ClinicalQuestion(category, subcategory,
                 "Is the trachea patent and normal in caliber?",
                 "If abnormal, describe the location, size, and nature of the abnormality.",
                 depends_on_id)
        ELSE IF Contains(<<"e", "f", "f", "u", "s", "i", "o", "n">>, item_lower) \/ Contains(<<"p", "n", "e", "u", "m", "o", "t", "h", "o", "r", "a", "x">>, item_lower)
        THEN ClinicalQuestion(category, subcategory,
                 "Is there any pleural effusion or pneumothorax?",
                 "If present, specify location, size (volume in ml or depth in cm), and characteristics.",
                 depends_on_id)
        ELSE IF \/ Contains(<<"c", "o", "n", "s", "o", "l", "i", "d", "a", "t", "i", "o", "n">>, item_lower)
                \/ Contains(<<"m", "a", "s", "s", "e", "s">>, item_lower)
                \/ Contains(<<"n", "o", "d", "u", "l", "e", "s">>, item_lower)
        THEN ClinicalQuestion(category, subcategory,
                 "Are there any consolidations, masses, or nodules?",
                 "If present, specify location, size (in cm or mm), density, and characteristics.",
                 depends_on_id)
        ELSE IF Contains(<<"h", "e", "a", "r", "t">>, item_lower) /\ Contains(<<"s", "i", "z", "e">>, item_lower)
        THEN ClinicalQuestion(category, subcategory,
                 "Is the heart size normal?",
                 "If enlarged, specify cardiothoracic ratio and chamber involvement.",
                 depends_on_id)
        ELSE IF Contains(<<"a", "o", "r", "t", "a">>, item_lower)
        THEN ClinicalQuestion(category, subcategory,
                 "Is the aorta normal in size and appearance?",
                 "If abnormal, specify location, diameter, and nature of abnormality (aneurysm/dissection).",
                 depends_on_id)
        ELSE IF Contains(<<"l", "y", "m", "p", "h">>, item_lower)
        THEN ClinicalQuestion(category, subcategory,
                 "Are there any enlarged lymph nodes?",
                 "If present, specify location, size (short axis in mm), and stations involved.",
                 depends_on_id)
        ELSE IF Contains(<<"f", "r", "a", "c", "t", "u", "r", "e">>, item_lower)
        THEN ClinicalQuestion(category, subcategory,
                 "Are there any bone fractures?",
                 "If present, specify bones involved, location, and characteristics (displaced/non-displaced).",
                 depends_on_id)
        ELSE None

\* the questions of the items of one subcategory, in order
RECURSIVE item_questions(_, _, _, _)
item_questions(items, category_name, subcat_name, screening_id) ==
    IF items = <<>> THEN <<>>
    ELSE convert_item_to_clinical_question(Head(items), category_name, subcat_name,
                                           screening_id)
         \o item_questions(Tail(items), category_name, subcat_name, screening_id)

\* the questions of the subcategories of one category, in order
RECURSIVE subcategory_questions(_, _, _)
subcategory_questions(subcategories, category_name, screening_id) ==
    IF subcategories = <<>> THEN <<>>
    ELSE item_questions(Head(subcategories).items, category_name,
                        Head(subcategories).name, screening_id)
         \o subcategory_questions(Tail(subcategories), category_name, screening_id)

\* the loop over checklist['checklist'], questions being the list so far
RECURSIVE category_questions(_, _)
category_questions(categories, questions) ==
    IF categories = <<>> THEN questions
    ELSE LET category == Head(categories)
             category_name == category.category
         IN  IF \E skip \in skip_categories : Contains(skip, category_name)
             THEN category_questions(Tail(categories), questions)
             ELSE LET screening_q ==
                          [level |-> 1, type |-> "screening", category |-> category_name,
                           question |-> <<"Are there any abnormalities in the ",
                                          category_name, "?">>,
                           id |-> <<"cat_", Len(questions)>>]
                  IN  category_questions(
                          Tail(categories),
                          Append(questions, screening_q)
                          \o subcategory_questions(category.subcategories, category_name,
                                                   screening_q.id))

create_simple_questions_from_checklist(checklist_json) ==
    category_questions(checklist_json.checklist, <<>>)

----------------------------------------------------------------------------
(* ui/main.py: what "Generate Checklist" meets *)

\* RadiologyChecklistGenerator() raises, or the store and the model act
ChecklistEnvironments(cm) ==
    {[init |-> init, store |-> store, llm |-> llm] :
        init \in {"ok", "raise"}, store \in StoreOutcomes,
        llm \in ChecklistLLMResponses(cm)}

\* the three outcomes the page tells apart: a checklist, an error result,
\* an exception
ChecklistOutcomes(cm) ==
    {e \in ChecklistEnvironments(cm) :
        \/ e.init = "raise" /\ e.store.kind = "raise" /\ e.llm.kind = "raise"
        \/ e.init = "ok" /\ e.store.kind = "none" /\ e.llm.kind = "raise"
        \/ /\ e.init = "ok" /\ e.store.documents # <<>>
           /\ e.llm.kind = "json" /\ e.llm.value = Checklist(cm)}

----------------------------------------------------------------------------
(* ui/main.py: Interactive Checklist page *)

\* mutant of answer_key: the key does not follow the position
answer_key_fixed(current_q) == 0

\* answer_key = f"q_{current_q}": the key q_<n> is the number n
answer_key(current_q) == current_q

\* the answer record stored under q_<current_q>
answer_record(question_data, current_q, answer, details) ==
    [question |-> question_data.question,
     category |-> question_data.category,
     subcategory |-> Get(question_data, "subcategory", "General"),
     item |-> Get(question_data, "id", "question_<current_q>"),
     answer |-> answer,
     details |-> strip(details),
     follow_up |-> Get(question_data, "follow_up", ""),
     type |-> Get(question_data, "type", "specific")]

\* the completion summary: one record per answer with answer 'Yes'
positive_findings(ans) ==
    LET yes == SelectSeq(DictValues(ans), LAMBDA a : a.answer = "Yes")
    IN  [i \in 1..Len(yes) |->
            [question |-> yes[i].question,
             category |-> yes[i].category,
             subcategory |-> yes[i].subcategory,
             item |-> yes[i].item,
             details |-> yes[i].details]]

\* One run of the page script below the buttons, on the session state the
\* button handler left: compile the questions if there are none, rebuild the
\* visible list and, when every visible question is answered, store the
\* positive findings.  response is the model's answer to compilation.
\* the type check of the first element of the list, which ends the run of
\* the page with st.stop()
page_stopped(hierarchical_questions) ==
    /\ hierarchical_questions # <<>>
    /\ ~isinstance_dict(hierarchical_questions[1])

InteractiveChecklistPage(cg, qg, gq, sa, current_q, ans, fnd, response) ==
    IF ~cg
    THEN [questions_generated |-> qg, generated_questions |-> gq,
          screening_answers |-> sa, findings |-> fnd]
    ELSE LET hierarchical_questions ==
                 IF ~qg THEN generate_hierarchical_questions_from_checklist(response)
                 ELSE gq
             sa2 == IF ~qg THEN <<>> ELSE sa
             total_questions == Len(all_questions(hierarchical_questions, sa2))
         IN  [questions_generated |-> TRUE,
              generated_questions |-> hierarchical_questions,
              screening_answers |-> sa2,
              findings |-> IF page_stopped(hierarchical_questions) THEN fnd
                           ELSE IF current_q < total_questions THEN fnd
                           ELSE Some(positive_findings(ans))]

\* the page compiled in this run (cg and not qg): whether the list it stored
\* is the list object of config.prompts
shared_after_page(cg, qg, shared, response) ==
    IF cg /\ ~qg THEN returns_fallback_questions(response) ELSE shared

----------------------------------------------------------------------------
(* ui/main.py: question refinement.  The visible list holds the dict        *)
(* objects of the compiled list, so question_data['question'] = ... writes  *)
(* into the compiled list; the place of the object in that list is carried  *)
(* along in the field list_index.                                           *)

\* what llm.invoke does with the refinement prompt
RefinementContent == " Is there a further abnormality? "

RefinementFailures == {[kind |-> "raise", content |-> ""]}

RefinementResponses ==
    RefinementFailures \cup {[kind |-> "ok", content |-> RefinementContent]}

\* response.content.strip(), of the contents of the model
content_strip(content) ==
    IF content = RefinementContent THEN "Is there a further abnormality?"
    ELSE content

with_list_index(hierarchical_questions) ==
    [i \in 1..Len(hierarchical_questions) |->
        ("list_index" :> i) @@ hierarchical_questions[i]]

\* the answers with 'Yes' and details
previous_findings(ans) ==
    SelectSeq(DictValues(ans), LAMBDA a : a.answer = "Yes" /\ a.details # <<>>)

\* the place in the compiled list of the question the page asks the model
\* to refine in this run, 0 when it asks for none
refinement_target(hierarchical_questions, sa, current_q, ans, rf) ==
    IF \/ page_stopped(hierarchical_questions)
       \/ ans = <<>>
       \/ previous_findings(ans) = <<>>
       \/ current_q \in rf
    THEN 0
    ELSE LET all == all_questions(with_list_index(hierarchical_questions), sa)
         IN  IF current_q >= Len(all) THEN 0
             ELSE IF Get(all[current_q + 1], "type", NoneStr) = "specific"
             THEN all[current_q + 1].list_index
             ELSE 0

\* mutant of refine_question: the refined text is written to every question
\* that depends on the same screening question
refine_question_whole_block(hierarchical_questions, sa, current_q, ans, rf, response) ==
    LET target == refinement_target(hierarchical_questions, sa, current_q, ans, rf)
    IN  IF response.kind = "raise" \/ target = 0
        THEN [generated_questions |-> hierarchical_questions, refined |-> rf]
        ELSE [generated_questions |->
                 [i \in 1..Len(hierarchical_questions) |->
                     IF Get(hierarchical_questions[i], "depends_on", NoneStr)
                            = Get(hierarchical_questions[target], "depends_on", NoneStr)
                     THEN [hierarchical_questions[i] EXCEPT
                              !.question = content_strip(response.content)]
                     ELSE hierarchical_questions[i]],
              refined |-> rf \cup {current_q}]

\* lines 465-491 of one run of the page: the compiled list and the refined
\* flags it leaves.  A raised call, and a question without 'question'
\* (KeyError in the prompt), are caught and change nothing.
refine_question(hierarchical_questions, sa, current_q, ans, rf, response) ==
    LET target == refinement_target(hierarchical_questions, sa, current_q, ans, rf)
    IN  IF response.kind = "raise" \/ target = 0
        THEN [generated_questions |-> hierarchical_questions, refined |-> rf]
        ELSE IF "question" \notin DOMAIN hierarchical_questions[target]
        THEN [generated_questions |-> hierarchical_questions, refined |-> rf]
        ELSE [generated_questions |->
                 [hierarchical_questions EXCEPT
                     ![target].question = content_strip(response.content)],
              refined |-> rf \cup {current_q}]

----------------------------------------------------------------------------
(* ui/main.py: the buttons of the Case Input and Interactive Checklist pages *)

\* Case Input page, "Save Case Data"
SaveCase(case_id, age) ==
    IF age = ""
    THEN /\ checklist_call' = None
         /\ UNCHANGED <<case_metadata, session_vars, findings, report_vars,
                         refinement_vars, qa_session>>
    ELSE /\ case_metadata' = Some(CaseMetadata(case_id, age))
         /\ checklist_generated' = FALSE
         /\ checklist' = None
         /\ questions_generated' = FALSE
         /\ generated_questions' = <<>>
         /\ screening_answers' = <<>>
         /\ current_question' = 0
         /\ answers' = <<>>
         /\ findings' = Some(<<>>)
         /\ checklist_call' = None
         /\ questions_shared' = FALSE
         /\ UNCHANGED <<report_vars, refined, fallback_questions, qa_session>>

\* mutant of StartOver: the screening answers are not cleared
StartOver_keeps_screening_answers ==
    /\ case_metadata # None
    /\ checklist_generated
    /\ checklist_generated' = FALSE
    /\ checklist' = None
    /\ questions_generated' = FALSE
    /\ generated_questions' = <<>>
    /\ current_question' = 0
    /\ answers' = <<>>
    /\ checklist_call' = None
    /\ questions_shared' = FALSE
    /\ UNCHANGED <<screening_answers, findings, case_metadata, report_vars,
                   refined, fallback_questions, qa_session>>

\* "Start Over", then st.rerun()
StartOver ==
    /\ case_metadata # None
    /\ checklist_generated
    /\ LET page == InteractiveChecklistPage(FALSE, FALSE, <<>>, <<>>, 0, <<>>,
                                            findings, [kind |-> "raise", value |-> <<>>])
       IN  /\ checklist_generated' = FALSE
           /\ checklist' = None
           /\ questions_generated' = page.questions_generated
           /\ generated_questions' = page.generated_questions
           /\ screening_answers' = page.screening_answers
           /\ current_question' = 0
           /\ answers' = <<>>
           /\ findings' = page.findings
    /\ checklist_call' = None
    /\ questions_shared' = FALSE
    /\ UNCHANGED <<case_metadata, report_vars, refined, fallback_questions,
                   qa_session>>

\* mutant of GenerateChecklist: an error result is stored as the checklist
GenerateChecklist_stores_error_result(outcome, response) ==
    /\ case_metadata # None
    /\ ~checklist_generated
    /\ IF outcome.init = "raise"
       THEN checklist_call' = None
            /\ UNCHANGED <<session_vars, findings, questions_shared>>
       ELSE LET call == generate_checklist(case_metadata[1], outcome.store, outcome.llm)
                page == InteractiveChecklistPage(TRUE, questions_generated,
                                                 generated_questions, screening_answers,
                                                 0, <<>>, findings, response)
            IN  /\ checklist_call' = Some(call)
                /\ IF FALSE
                   THEN UNCHANGED <<session_vars, findings, questions_shared>>
                   ELSE /\ checklist' = Some(call.result)
                        /\ checklist_generated' = TRUE
                        /\ current_question' = 0
                        /\ answers' = <<>>
                        /\ questions_generated' = page.questions_generated
                        /\ generated_questions' = page.generated_questions
                        /\ screening_answers' = page.screening_answers
                        /\ findings' = page.findings
                        /\ questions_shared' =
                              shared_after_page(TRUE, questions_generated,
                                                questions_shared, response)
    /\ UNCHANGED <<case_metadata, report_vars, refined, fallback_questions,
                   qa_session>>

\* "Generate Checklist"; on success st.rerun() and the page compiles
GenerateChecklist(outcome, response) ==
    /\ case_metadata # None
    /\ ~checklist_generated
    /\ IF outcome.init = "raise"
       THEN checklist_call' = None
            /\ UNCHANGED <<session_vars, findings, questions_shared>>
       ELSE LET call == generate_checklist(case_metadata[1], outcome.store, outcome.llm)
                page == InteractiveChecklistPage(TRUE, questions_generated,
                                                 generated_questions, screening_answers,
                                                 0, <<>>, findings, response)
            IN  /\ checklist_call' = Some(call)
                /\ IF "error" \in DOMAIN call.result
                   THEN UNCHANGED <<session_vars, findings, questions_shared>>
                   ELSE /\ checklist' = Some(call.result)
                        /\ checklist_generated' = TRUE
                        /\ current_question' = 0
                        /\ answers' = <<>>
                        /\ questions_generated' = page.questions_generated
                        /\ generated_questions' = page.generated_questions
                        /\ screening_answers' = page.screening_answers
                        /\ findings' = page.findings
                        /\ questions_shared' =
                              shared_after_page(TRUE, questions_generated,
                                                questions_shared, response)
    /\ UNCHANGED <<case_metadata, report_vars, refined, fallback_questions,
                   qa_session>>

\* the list object of config.prompts after a run of the page that left
\* the compiled list gq
fallback_after(gq) ==
    IF questions_shared THEN gq ELSE fallback_questions

\* mutant of ViewInteractiveChecklist: a run of the page moves on to the
\* next question
ViewInteractiveChecklist_moves_on(refinement) ==
    /\ case_metadata # None
    /\ checklist_generated
    /\ LET page == InteractiveChecklistPage(
                       TRUE, questions_generated, generated_questions,
                       screening_answers, current_question, answers, findings,
                       [kind |-> "raise", value |-> <<>>])
           run == refine_question(page.generated_questions, page.screening_answers,
                                  current_question, answers, refined, refinement)
       IN  /\ questions_generated' = page.questions_generated
           /\ screening_answers' = page.screening_answers
           /\ generated_questions' = run.generated_questions
           /\ refined' = run.refined
           /\ fallback_questions' = fallback_after(run.generated_questions)
           /\ findings' = page.findings
           /\ current_question' = current_question + 1
    /\ checklist_call' = None
    /\ UNCHANGED <<case_metadata, checklist_generated, checklist,
                   answers, report_vars, questions_shared, qa_session>>

\* The Interactive Checklist page is run again without a button pressed
\* (the page is chosen in the sidebar, or a widget outside the form
\* changes): it refines the current question if it has to and, when every
\* visible question is answered, stores the positive findings.
ViewInteractiveChecklist(refinement) ==
    /\ case_metadata # None
    /\ checklist_generated
    /\ LET page == InteractiveChecklistPage(
                       TRUE, questions_generated, generated_questions,
                       screening_answers, current_question, answers, findings,
                       [kind |-> "raise", value |-> <<>>])
           run == refine_question(page.generated_questions, page.screening_answers,
                                  current_question, answers, refined, refinement)
       IN  /\ questions_generated' = page.questions_generated
           /\ screening_answers' = page.screening_answers
           /\ generated_questions' = run.generated_questions
           /\ refined' = run.refined
           /\ fallback_questions' = fallback_after(run.generated_questions)
           /\ findings' = page.findings
    /\ checklist_call' = None
    /\ UNCHANGED <<case_metadata, checklist_generated, checklist, current_question,
                   answers, report_vars, questions_shared, qa_session>>

\* mutant of SubmitAnswer: 'Yes' is accepted without details
SubmitAnswer_accepts_blank_details(answer, details, before, after) ==
    /\ case_metadata # None
    /\ checklist_generated
    /\ LET current_q == current_question
           this_run == refine_question(generated_questions, screening_answers,
                                       current_q, answers, refined, before)
           all == all_questions(this_run.generated_questions, screening_answers)
       IN  /\ ~page_stopped(generated_questions)
           /\ current_q < Len(all)
           /\ LET question_data == all[current_q + 1]
              IN  IF FALSE
                  THEN /\ generated_questions' = this_run.generated_questions
                       /\ refined' = this_run.refined
                       /\ fallback_questions' = fallback_after(this_run.generated_questions)
                       /\ UNCHANGED <<checklist_generated, checklist,
                                      questions_generated, screening_answers,
                                      current_question, answers, findings>>
                  ELSE LET ans2 == DictSet(answers, answer_key(current_q),
                                           answer_record(question_data, current_q,
                                                         answer, details))
                           sa2 == IF Get(question_data, "type", NoneStr) = "screening"
                                  THEN (Get(question_data, "id", "screening_<current_q>")
                                            :> answer) @@ screening_answers
                                  ELSE screening_answers
                           page == InteractiveChecklistPage(
                                       TRUE, questions_generated,
                                       this_run.generated_questions,
                                       sa2, current_q + 1, ans2, findings,
                                       [kind |-> "raise", value |-> <<>>])
                           next_run == refine_question(page.generated_questions,
                                                       page.screening_answers,
                                                       current_q + 1, ans2,
                                                       this_run.refined, after)
                       IN  /\ answers' = ans2
                           /\ current_question' = current_q + 1
                           /\ screening_answers' = page.screening_answers
                           /\ questions_generated' = page.questions_generated
                           /\ generated_questions' = next_run.generated_questions
                           /\ refined' = next_run.refined
                           /\ fallback_questions' = fallback_after(next_run.generated_questions)
                           /\ findings' = page.findings
                           /\ UNCHANGED <<checklist_generated, checklist>>
    /\ checklist_call' = None
    /\ UNCHANGED <<case_metadata, report_vars, questions_shared, qa_session>>

\* "Submit Answer" on the current question.  The run of the page in which the
\* form is submitted refines the current question first, if it has to
\* (before); an accepted answer ends with st.rerun(), and the next run
\* refines the question that is current then (after).
SubmitAnswer(answer, details, before, after) ==
    /\ case_metadata # None
    /\ checklist_generated
    /\ LET current_q == current_question
           this_run == refine_question(generated_questions, screening_answers,
                                       current_q, answers, refined, before)
           all == all_questions(this_run.generated_questions, screening_answers)
       IN  /\ ~page_stopped(generated_questions)
           /\ current_q < Len(all)
           /\ LET question_data == all[current_q + 1]
              IN  IF answer = "Yes" /\ strip(details) = <<>>
                  THEN /\ generated_questions' = this_run.generated_questions
                       /\ refined' = this_run.refined
                       /\ fallback_questions' = fallback_after(this_run.generated_questions)
                       /\ UNCHANGED <<checklist_generated, checklist,
                                      questions_generated, screening_answers,
                                      current_question, answers, findings>>
                  ELSE LET ans2 == DictSet(answers, answer_key(current_q),
                                           answer_record(question_data, current_q,
                                                         answer, details))
                           sa2 == IF Get(question_data, "type", NoneStr) = "screening"
                                  THEN (Get(question_data, "id", "screening_<current_q>")
                                            :> answer) @@ screening_answers
                                  ELSE screening_answers
                           page == InteractiveChecklistPage(
                                       TRUE, questions_generated,
                                       this_run.generated_questions,
                                       sa2, current_q + 1, ans2, findings,
                                       [kind |-> "raise", value |-> <<>>])
                           next_run == refine_question(page.generated_questions,
                                                       page.screening_answers,
                                                       current_q + 1, ans2,
                                                       this_run.refined, after)
                       IN  /\ answers' = ans2
                           /\ current_question' = current_q + 1
                           /\ screening_answers' = page.screening_answers
                           /\ questions_generated' = page.questions_generated
                           /\ generated_questions' = next_run.generated_questions
                           /\ refined' = next_run.refined
                           /\ fallback_questions' = fallback_after(next_run.generated_questions)
                           /\ findings' = page.findings
                           /\ UNCHANGED <<checklist_generated, checklist>>
    /\ checklist_call' = None
    /\ UNCHANGED <<case_metadata, report_vars, questions_shared, qa_session>>

----------------------------------------------------------------------------
(* ct_ui_new.py: the Case Input and Interactive Checklist pages of the       *)
(* earlier variant, on the same st.session_state keys                       *)

\* its get_fallback_questions builds a new list on every call
generate_hierarchical_questions_from_checklist_ct_ui_new(response) ==
    IF response.kind = "raise" THEN get_fallback_questions_ct_ui_new
    ELSE IF response.kind = "bad_json" THEN get_fallback_questions_ct_ui_new
    ELSE IF response.kind = "not_list" THEN get_fallback_questions_ct_ui_new
    ELSE IF Len(response.value) = 0 THEN get_fallback_questions_ct_ui_new
    ELSE response.value

\* the answer record stored under q_<current_q>: the details as typed
answer_record_ct_ui_new(question_data, current_q, answer, details) ==
    [question |-> question_data.question,
     category |-> question_data.category,
     subcategory |-> Get(question_data, "subcategory", "General"),
     item |-> Get(question_data, "id", "question_<current_q>"),
     answer |-> answer,
     details |-> details,
     follow_up |-> Get(question_data, "follow_up", ""),
     type |-> Get(question_data, "type", "specific")]

\* lines 568-596 of one run of the page
refine_question_ct_ui_new(hierarchical_questions, sa, current_q, ans, rf, response) ==
    LET all == all_questions_ct_ui_new(with_list_index(hierarchical_questions), sa)
        asked == /\ ~page_stopped(hierarchical_questions)
                 /\ current_q < Len(all)
                 /\ Get(all[current_q + 1], "type", NoneStr) = "specific"
                 /\ ans # <<>>
                 /\ previous_findings(ans) # <<>>
                 /\ current_q \notin rf
    IN  IF response.kind = "raise" \/ ~asked
        THEN [generated_questions |-> hierarchical_questions, refined |-> rf]
        ELSE IF "question" \notin DOMAIN all[current_q + 1]
        THEN [generated_questions |-> hierarchical_questions, refined |-> rf]
        ELSE [generated_questions |->
                 [hierarchical_questions EXCEPT
                     ![all[current_q + 1].list_index].question =
                         content_strip(response.content)],
              refined |-> rf \cup {current_q}]

\* one run of the page below the Generate Checklist button (lines 503-566
\* and 653-685)
InteractiveChecklistPage_ct_ui_new(cg, qg, gq, sa, current_q, ans, fnd, response) ==
    IF ~cg
    THEN [questions_generated |-> qg, generated_questions |-> gq,
          screening_answers |-> sa, findings |-> fnd]
    ELSE LET hierarchical_questions ==
                 IF ~qg
                 THEN generate_hierarchical_questions_from_checklist_ct_ui_new(response)
                 ELSE gq
             sa2 == IF ~qg THEN <<>> ELSE sa
             total_questions == Len(all_questions_ct_ui_new(hierarchical_questions, sa2))
         IN  [questions_generated |-> TRUE,
              generated_questions |-> hierarchical_questions,
              screening_answers |-> sa2,
              findings |-> IF page_stopped(hierarchical_questions) THEN fnd
                           ELSE IF current_q < total_questions THEN fnd
                           ELSE Some(positive_findings(ans))]

\* Case Input page, "Save Case Data" (lines 439-460)
SaveCase_ct_ui_new(case_id, age) ==
    IF age = ""
    THEN /\ checklist_call' = None
         /\ UNCHANGED <<case_metadata, session_vars, findings, report_vars,
                         refinement_vars, qa_session>>
    ELSE /\ case_metadata' = Some(CaseMetadata(case_id, age))
         /\ checklist_generated' = FALSE
         /\ checklist_call' = None
         /\ UNCHANGED <<checklist, questions_generated, generated_questions,
                         screening_answers, current_question, answers, findings,
                         report_vars, refinement_vars, qa_session>>

\* "Generate Checklist" (lines 482-502); on success st.rerun() and the page
\* compiles if questions_generated is not set
GenerateChecklist_ct_ui_new(outcome, response) ==
    /\ case_metadata # None
    /\ ~checklist_generated
    /\ IF outcome.init = "raise"
       THEN checklist_call' = None /\ UNCHANGED <<session_vars, findings>>
       ELSE LET call == generate_checklist(case_metadata[1], outcome.store, outcome.llm)
                page == InteractiveChecklistPage_ct_ui_new(
                            TRUE, questions_generated, generated_questions,
                            screening_answers, 0, <<>>, findings, response)
            IN  /\ checklist_call' = Some(call)
                /\ IF "error" \in DOMAIN call.result
                   THEN UNCHANGED <<session_vars, findings>>
                   ELSE /\ checklist' = Some(call.result)
                        /\ checklist_generated' = TRUE
                        /\ current_question' = 0
                        /\ answers' = <<>>
                        /\ questions_generated' = page.questions_generated
                        /\ generated_questions' = page.generated_questions
                        /\ screening_answers' = page.screening_answers
                        /\ findings' = page.findings
    /\ UNCHANGED <<case_metadata, report_vars, refinement_vars, qa_session>>

\* "Submit Answer" (lines 565-652): every answer is accepted
SubmitAnswer_ct_ui_new(answer, details, before, after) ==
    /\ case_metadata # None
    /\ checklist_generated
    /\ LET current_q == current_question
           this_run == refine_question_ct_ui_new(generated_questions, screening_answers,
                                                 current_q, answers, refined, before)
           all == all_questions_ct_ui_new(this_run.generated_questions, screening_answers)
       IN  /\ ~page_stopped(generated_questions)
           /\ current_q < Len(all)
           /\ LET question_data == all[current_q + 1]
                  ans2 == DictSet(answers, answer_key(current_q),
                                  answer_record_ct_ui_new(question_data, current_q,
                                                          answer, details))
                  sa2 == IF Get(question_data, "type", NoneStr) = "screening"
                         THEN (Get(question_data, "id", "screening_<current_q>")
                                   :> answer) @@ screening_answers
                         ELSE screening_answers
                  page == InteractiveChecklistPage_ct_ui_new(
                              TRUE, questions_generated, this_run.generated_questions,
                              sa2, current_q + 1, ans2, findings,
                              [kind |-> "raise", value |-> <<>>])
                  next_run == refine_question_ct_ui_new(page.generated_questions,
                                                        page.screening_answers,
                                                        current_q + 1, ans2,
                                                        this_run.refined, after)
              IN  /\ answers' = ans2
                  /\ current_question' = current_q + 1
                  /\ screening_answers' = page.screening_answers
                  /\ questions_generated' = page.questions_generated
                  /\ generated_questions' = next_run.generated_questions
                  /\ refined' = next_run.refined
                  /\ findings' = page.findings
                  /\ UNCHANGED <<checklist_generated, checklist>>
    /\ checklist_call' = None
    /\ UNCHANGED <<case_metadata, report_vars, fallback_questions, questions_shared,
                   qa_session>>

----------------------------------------------------------------------------
(* ui/main.py: Report Generation page *)

LLMOutcomes == {"ok", "raise"}

\* generator.generate_complete_report(...) and what the caller keeps of it
StoreReport(cm, fs, all_answers_arg, obs_llm, imp_llm) ==
    LET r == generate_complete_report(cm, fs, all_answers_arg, obs_llm, imp_llm)
    IN  /\ generated_report' = Some(r.report)
        /\ observations_call' = Some(r.observations_call)
        /\ impression_call' = Some(r.impression_call)

\* "Generate Radiology Report"; init is "ok" or "raise" (the constructor)
GenerateRadiologyReport(init, obs_llm, imp_llm) ==
    /\ case_metadata # None
    /\ findings # None
    /\ IF init = "raise"
       THEN UNCHANGED report_vars
       ELSE StoreReport(case_metadata[1], findings[1], None, obs_llm, imp_llm)
    /\ checklist_call' = None
    /\ UNCHANGED <<case_metadata, session_vars, findings, refinement_vars,
                   qa_session>>

----------------------------------------------------------------------------
(* The session *)

Init ==
    /\ case_metadata = None
    /\ checklist_generated = FALSE
    /\ checklist = None
    /\ questions_generated = FALSE
    /\ generated_questions = <<>>
    /\ screening_answers = <<>>
    /\ current_question = 0
    /\ answers = <<>>
    /\ findings = None
    /\ generated_report = None
    /\ observations_call = None
    /\ impression_call = None
    /\ checklist_call = None
    /\ refined = {}
    /\ fallback_questions = FALLBACK_QUESTIONS
    /\ questions_shared = FALSE
    /\ qa_session = None

\* what "Generate Checklist" can meet for the saved case; the button is
\* not there without a case
Environments(every_environment) ==
    IF case_metadata = None THEN {}
    ELSE IF every_environment THEN ChecklistEnvironments(case_metadata[1])
    ELSE ChecklistOutcomes(case_metadata[1])

PagesNext(case_ids, detail_inputs, every_environment, responses, refinements) ==
    \/ \E case_id \in case_ids, age \in AgeInputs : SaveCase(case_id, age)
    \/ StartOver
    \/ \E outcome \in Environments(every_environment), response \in responses :
          GenerateChecklist(outcome, response)
    \/ \E refinement \in refinements : ViewInteractiveChecklist(refinement)
    \/ \E answer \in AnswerInputs, details \in detail_inputs,
          before \in refinements, after \in refinements :
          SubmitAnswer(answer, details, before, after)

\* the pages with every refinement call failing: the question texts stay
\* those of the compiler
SessionNextOf(every_environment, responses) ==
    PagesNext(CaseIds, DetailInputs, every_environment, responses,
              RefinementFailures)

SessionNextWith(responses) == SessionNextOf(FALSE, responses)

ReportNext ==
    \E init \in LLMOutcomes, obs_llm \in LLMOutcomes, imp_llm \in LLMOutcomes :
        GenerateRadiologyReport(init, obs_llm, imp_llm)

\* the three pages
Next ==
    \/ SessionNextWith(LLMExampleResponses)
    \/ ReportNext

Spec == Init /\ [][Next]_vars

\* the Case Input and Interactive Checklist pages, every compilation outcome
SessionNext == SessionNextWith(LLMCompileResponses)

SessionSpec == Init /\ [][SessionNext]_vars

\* the same pages, the model also answering with lists the compiler does
\* not test
CompilerNext == SessionNextWith(LLMUnvalidatedResponses)

CompilerSpec == Init /\ [][CompilerNext]_vars

\* the same pages, the store and the model of checklist generation acting
\* in every way
ChecklistNext == SessionNextOf(TRUE, LLMExampleResponses)

ChecklistSpec == Init /\ [][ChecklistNext]_vars

\* the same pages, the refinement call answering or failing; one case, the
\* details box filled, the compilation request failing, so that every
\* session works on the fallback questions
LLMRefinedResponses == {[kind |-> "raise", value |-> <<>>]}

RefinedDetailInputs == { <<"a">> }

RefinementNext ==
    PagesNext({"case_A"}, RefinedDetailInputs, FALSE, LLMRefinedResponses,
              RefinementResponses)

RefinementSpec == Init /\ [][RefinementNext]_vars

\* the pages of ct_ui_new.py: two cases, the model answering compilation
\* with the prompt's example or not at all, the refinement call failing
LLMCtUiNewResponses == {[kind |-> "raise", value |-> <<>>], LLMList(ExampleQuestions)}

CtUiNewNext ==
    \/ \E case_id \in CaseIds, age \in AgeInputs : SaveCase_ct_ui_new(case_id, age)
    \/ \E outcome \in Environments(FALSE), response \in LLMCtUiNewResponses :
          GenerateChecklist_ct_ui_new(outcome, response)
    \/ \E answer \in AnswerInputs, details \in RefinedDetailInputs,
          before \in RefinementFailures, after \in RefinementFailures :
          SubmitAnswer_ct_ui_new(answer, details, before, after)

CtUiNewSpec == Init /\ [][CtUiNewNext]_vars

----------------------------------------------------------------------------
(* test_report_generation.py: generate_complete_report called on a list of  *)
(* finding records, as the test script and any other caller do             *)

MaxFindings == 2

Questions == {"Q1", "Q2"}

Subcategories == {"Lung Parenchyma", "Pleural Assessment"}

\* records as the pages and the test script build them: no 'answer' key
FindingRecords ==
    {[question |-> q, category |-> "Lungs", subcategory |-> sc, details |-> d] :
        q \in Questions, sc \in Subcategories,
        d \in {<<>>, <<Space>>, <<Space, "a", Space>>}}

\* records of st.session_state.answers: with the 'answer' key
AnswerRecords ==
    {[question |-> q, category |-> "Lungs", subcategory |-> sc,
      details |-> IF a = "Yes" THEN <<"a">> ELSE <<>>, answer |-> a] :
        q \in Questions, sc \in Subcategories, a \in AnswerInputs}

RECURSIVE ListsUpTo(_, _)
ListsUpTo(S, n) ==
    IF n = 0 THEN {<<>>}
    ELSE LET shorter == ListsUpTo(S, n - 1)
         IN  shorter \cup {Append(l, x) : l \in shorter, x \in S}

FindingLists == ListsUpTo(FindingRecords \cup AnswerRecords, MaxFindings)

\* the all_answers argument: left out, or every answer of the session: the
\* records passed as findings and a 'No' answer that is not among them
AllAnswersArgs(fs) ==
    {None,
     Some(fs \o << [question |-> "Q3", category |-> "Lungs",
                    subcategory |-> "Lung Parenchyma",
                    details |-> <<>>, answer |-> "No"] >>)}

GeneratorInit ==
    /\ case_metadata = Some(CaseMetadata("test_report_001", "65"))
    /\ checklist_generated = FALSE
    /\ checklist = None
    /\ questions_generated = FALSE
    /\ generated_questions = <<>>
    /\ screening_answers = <<>>
    /\ current_question = 0
    /\ answers = <<>>
    /\ findings \in {Some(l) : l \in FindingLists}
    /\ generated_report = None
    /\ observations_call = None
    /\ impression_call = None
    /\ checklist_call = None
    /\ refined = {}
    /\ fallback_questions = FALLBACK_QUESTIONS
    /\ questions_shared = FALSE
    /\ qa_session = None

\* report = generator.generate_complete_report(case_metadata, findings[, all_answers])
CallGenerateCompleteReport(all_answers_arg, obs_llm, imp_llm) ==
    /\ generated_report = None
    /\ StoreReport(case_metadata[1], findings[1], all_answers_arg, obs_llm, imp_llm)
    /\ checklist_call' = None
    /\ UNCHANGED <<case_metadata, session_vars, findings, refinement_vars,
                   qa_session>>

GeneratorNext ==
    \E all_answers_arg \in AllAnswersArgs(findings[1]), obs_llm \in LLMOutcomes, imp_llm \in LLMOutcomes :
        CallGenerateCompleteReport(all_answers_arg, obs_llm, imp_llm)

GeneratorSpec == GeneratorInit /\ [][GeneratorNext]_vars

----------------------------------------------------------------------------
(* src/checklist_generator.py: InteractiveQASystem.  self.answers is a dict  *)
(* keyed by f"{category}_{subcategory}_{item}", here the triple.            *)

\* InteractiveQASystem(): the position, the answers, _current_question_data
\* (not set: <<>>) and the value returned by the last call
NewQASystem ==
    [current_category |-> 0, current_subcategory |-> 0, current_item |-> 0,
     answers |-> <<>>, current_question_data |-> None,
     returned |-> [status |-> "new"]]

positive_answers == {<<"y", "e", "s">>, <<"y">>, <<"p", "o", "s", "i", "t", "i", "v", "e">>, <<"p", "r", "e", "s", "e", "n", "t">>}

\* get_next_question: the object after the call, returned holding the result
RECURSIVE get_next_question(_, _)
get_next_question(self, checklist_json) ==
    IF "checklist" \notin DOMAIN checklist_json
    THEN [self EXCEPT !.returned = [error |-> "Invalid checklist format"]]
    ELSE LET categories == checklist_json.checklist
         IN  IF self.current_category >= Len(categories)
             THEN [self EXCEPT !.returned = [status |-> "completed"]]
             ELSE LET current_cat == categories[self.current_category + 1]
                      subcategories == Get(current_cat, "subcategories", <<>>)
                  IN  IF self.current_subcategory >= Len(subcategories)
                      THEN get_next_question(
                               [self EXCEPT !.current_category = @ + 1,
                                            !.current_subcategory = 0,
                                            !.current_item = 0],
                               checklist_json)
                      ELSE LET current_subcat == subcategories[self.current_subcategory + 1]
                               items == Get(current_subcat, "items", <<>>)
                           IN  IF self.current_item >= Len(items)
                               THEN get_next_question(
                                        [self EXCEPT !.current_subcategory = @ + 1,
                                                     !.current_item = 0],
                                        checklist_json)
                               ELSE [self EXCEPT !.returned =
                                        [status |-> "question",
                                         category |-> current_cat.category,
                                         subcategory |-> current_subcat.name,
                                         item |-> items[self.current_item + 1]]]

\* what llm.invoke and json.loads make of the follow-up request: the call
\* raises or the text does not parse (the method returns []), or a list
FollowUpResponses ==
    {[kind |-> "raise", value |-> <<>>],
     [kind |-> "json", value |-> <<>>],
     [kind |-> "json", value |-> <<"What is the size of the finding?">>]}

generate_follow_up_questions(llm) ==
    IF llm.kind = "raise" THEN <<>> ELSE llm.value

\* process_answer, after set_current_question_data(question_data)
process_answer(self, answer, details, llm) ==
    IF self.current_question_data = None
    THEN [self EXCEPT !.returned = [error |-> "No current question data"]]
    ELSE LET question_data == self.current_question_data[1]
             key == <<question_data.category, question_data.subcategory,
                      question_data.item>>
             stored == [self EXCEPT !.answers =
                           DictSet(@, key,
                                   [answer |-> lower(answer),
                                    details |-> details,
                                    category |-> question_data.category,
                                    subcategory |-> question_data.subcategory,
                                    item |-> question_data.item])]
             follow_up == IF lower(answer) \in positive_answers
                          THEN generate_follow_up_questions(llm)
                          ELSE <<>>
         IN  IF follow_up # <<>>
             THEN [stored EXCEPT !.returned = [status |-> "follow_up"]]
             ELSE [stored EXCEPT !.current_item = @ + 1,
                                 !.returned = [status |-> "next_question"]]

\* get_session_summary()['positive_findings']
get_session_summary(self) ==
    LET yes == SelectSeq(DictValues(self.answers),
                         LAMBDA a : a.answer \in positive_answers)
    IN  [i \in 1..Len(yes) |->
            [category |-> yes[i].category, subcategory |-> yes[i].subcategory,
             item |-> yes[i].item, details |-> yes[i].details]]

\* the checklists the system is run on: three items; categories and
\* subcategories that are empty or without the key, and one item; two
\* subcategories of two categories; nothing
QAChecklists ==
    {[checklist |->
         << [category |-> "Lungs",
             subcategories |-> << [name |-> "Parenchyma",
                                   items |-> <<"Nodules", "Emphysema",
                                               "Consolidation">>] >>] >>],
     [checklist |->
         << [category |-> "Lungs",
             subcategories |-> << [name |-> "Parenchyma", items |-> <<"Nodules">>] >>],
            [category |-> "Heart",
             subcategories |-> << [name |-> "Size", items |-> <<"Cardiomegaly">>] >>] >>],
     [checklist |->
         << [category |-> "Airways", subcategories |-> <<>>],
            [category |-> "Mediastinum"],
            [category |-> "Pleura",
             subcategories |-> << [name |-> "Thickening", items |-> <<>>],
                                  [name |-> "Calcification"],
                                  [name |-> "Pleural Space",
                                   items |-> <<"Effusion">>] >>] >>],
     [checklist |-> <<>>]}

\* the answers of the radio button of the page and of the demo script
QAAnswerInputs == {<<"Y", "e", "s">>, <<"N", "o">>, <<"y", "e", "s">>}

QADetailInputs == {"", "right-sided"}

QAInit ==
    /\ case_metadata = Some(CaseMetadata("case_A", "65"))
    /\ checklist_generated = TRUE
    /\ checklist \in {Some(c) : c \in QAChecklists}
    /\ questions_generated = FALSE
    /\ generated_questions = <<>>
    /\ screening_answers = <<>>
    /\ current_question = 0
    /\ answers = <<>>
    /\ findings = None
    /\ generated_report = None
    /\ observations_call = None
    /\ impression_call = None
    /\ checklist_call = None
    /\ refined = {}
    /\ fallback_questions = FALLBACK_QUESTIONS
    /\ questions_shared = FALSE
    /\ qa_session = Some(NewQASystem)

\* question_data = qa_session.get_next_question(checklist); on 'completed'
\* the page stores the positive findings of the summary
CallGetNextQuestion ==
    /\ qa_session # None
    /\ Get(qa_session[1].returned, "status", NoneStr) # "question"
    /\ LET self == get_next_question(qa_session[1], checklist[1])
       IN  /\ qa_session' = Some(self)
           /\ findings' = IF Get(self.returned, "status", NoneStr) = "completed"
                          THEN Some(get_session_summary(self))
                          ELSE findings
    /\ UNCHANGED <<case_metadata, session_vars, report_vars, checklist_call,
                   refinement_vars>>

\* qa_session.set_current_question_data(question_data);
\* qa_session.process_answer(answer, details)
CallProcessAnswer(answer, details, llm) ==
    /\ qa_session # None
    /\ Get(qa_session[1].returned, "status", NoneStr) = "question"
    /\ LET question_data == qa_session[1].returned
           self == [qa_session[1] EXCEPT !.current_question_data = Some(question_data)]
       IN  qa_session' = Some(process_answer(self, answer, details, llm))
    /\ UNCHANGED <<case_metadata, session_vars, findings, report_vars, checklist_call,
                   refinement_vars>>

QANext ==
    \/ CallGetNextQuestion
    \/ \E answer \in QAAnswerInputs, details \in QADetailInputs, llm \in FollowUpResponses :
          CallProcessAnswer(answer, details, llm)

\* the callers go on calling for as long as they are not told 'completed'
QASpec == QAInit /\ [][QANext]_vars /\ WF_vars(QANext)

----------------------------------------------------------------------------
(* simple_qa_system.py: create_simple_questions_from_checklist called on a   *)
(* checklist                                                                 *)

MaxItems == 2

MaxSubcategories == 2

\* a procedural item that names an organ, a procedural item that names
\* none, and a finding
ChecklistItems ==
    {<<"C", "h", "e", "c", "k", " ", "t", "r", "a", "c", "h", "e", "a">>,
     <<"R", "e", "v", "i", "e", "w", " ", "i", "m", "a", "g", "e", "s">>,
     <<"M", "a", "s", "s", "e", "s">>}

ChecklistSubcategories ==
    {[name |-> "Airways", items |-> items] : items \in ListsUpTo(ChecklistItems, MaxItems)}

\* a clinical category and a category the compiler skips
ChecklistCategoryNames ==
    {<<"L", "u", "n", "g", "s">>,
     <<"F", "i", "n", "a", "l", " ", "C", "h", "e", "c", "k", "s">>}

ChecklistCategories ==
    {[category |-> name, subcategories |-> subcategories] :
        name \in ChecklistCategoryNames,
        subcategories \in ListsUpTo(ChecklistSubcategories, MaxSubcategories)}

\* the categories that follow the first one in the checklists of two
\* categories
SecondCategories ==
    {[category |-> <<"M", "e", "d", "i", "a", "s", "t", "i", "n", "u", "m">>,
      subcategories |-> << [name |-> "Vessels", items |-> <<<<"A", "s", "s", "e", "s", "s", " ", "a", "o", "r", "t", "a">>>>] >>],
     [category |-> <<"I", "m", "a", "g", "e", " ", "Q", "u", "a", "l", "i", "t", "y">>,
      subcategories |-> << [name |-> "Quality", items |-> <<<<"C", "h", "e", "c", "k", " ", "t", "r", "a", "c", "h", "e", "a">>>>] >>]}

LocalChecklists ==
    {<<c>> : c \in ChecklistCategories}
    \cup {<<c, d>> : c \in ChecklistCategories, d \in SecondCategories}

LocalCompilerInit ==
    /\ case_metadata = None
    /\ checklist_generated = FALSE
    /\ checklist \in {Some([checklist |-> l]) : l \in LocalChecklists}
    /\ questions_generated = FALSE
    /\ generated_questions = <<>>
    /\ screening_answers = <<>>
    /\ current_question = 0
    /\ answers = <<>>
    /\ findings = None
    /\ generated_report = None
    /\ observations_call = None
    /\ impression_call = None
    /\ checklist_call = None
    /\ refined = {}
    /\ fallback_questions = FALLBACK_QUESTIONS
    /\ questions_shared = FALSE
    /\ qa_session = None

\* questions = create_simple_questions_from_checklist(checklist)
CallCreateSimpleQuestions ==
    /\ ~questions_generated
    /\ generated_questions' = create_simple_questions_from_checklist(checklist[1])
    /\ questions_generated' = TRUE
    /\ UNCHANGED <<case_metadata, checklist_generated, checklist, screening_answers,
                   current_question, answers, findings, report_vars, checklist_call,
                   refinement_vars, qa_session>>

LocalCompilerNext == CallCreateSimpleQuestions

LocalCompilerSpec == LocalCompilerInit /\ [][LocalCompilerNext]_vars

----------------------------------------------------------------------------
(* Properties of the Interactive Checklist session *)

InSeq(x, seq) == \E i \in 1..Len(seq) : seq[i] = x

IsScreening(q) == Get(q, "type", NoneStr) = "screening"

IsSpecific(q) == Get(q, "type", NoneStr) = "specific"

\* the visible list of the current state
Visible == all_questions(generated_questions, screening_answers)

VisibleCtUiNew == all_questions_ct_ui_new(generated_questions, screening_answers)

\* a screening question of the compiled list has this id and the recorded answer
Recorded(id, answer) ==
    /\ \E j \in 1..Len(generated_questions) :
          IsScreening(generated_questions[j]) /\ generated_questions[j].id = id
    /\ id \in DOMAIN screening_answers
    /\ screening_answers[id] = answer

\* C1: a specific question of the compiled list is in the visible list if and
\* only if the screening question it depends on has the recorded answer
\* 'Yes'; while that answer is 'No' or missing, no dependent is visible.
\* Stated of the visible list of ui/main.py and of ct_ui_new.py.
C1_GatingIff ==
    \A i \in 1..Len(generated_questions) :
        LET q == generated_questions[i]
        IN  IsSpecific(q) =>
                /\ InSeq(q, Visible) <=> Recorded(q.depends_on, "Yes")
                /\ InSeq(q, VisibleCtUiNew) <=> Recorded(q.depends_on, "Yes")
                /\ ~Recorded(q.depends_on, "Yes") =>
                      \A p \in 1..Len(Visible) :
                          Get(Visible[p], "depends_on", NoneStr) # q.depends_on

\* one subcategory answered 'Yes' with its dependents visible, the other
\* answered 'No' with its dependent hidden
C1_Witness ==
    /\ generated_questions = LungsPleuraQuestions
    /\ Recorded("screening_0", "Yes")
    /\ Recorded("screening_1", "No")
    /\ InSeq(LungsPleuraQuestions[2], Visible)
    /\ ~InSeq(LungsPleuraQuestions[5], Visible)

\* the dependents a screening question shows in the current state
OpenBlock(screening_q) ==
    IF Recorded(screening_q.id, "Yes")
    THEN SelectSeq(generated_questions,
                   LAMBDA q : IsSpecific(q) /\ q.depends_on = screening_q.id)
    ELSE <<>>

\* C2: the visible list holds every screening question, in compiled order;
\* directly after a screening question answered 'Yes' come its specific
\* questions, all of them, in compiled order, as one block that ends at the
\* next screening question or at the end of the list.
C2_BlockOrder ==
    /\ SelectSeq(Visible, IsScreening) = SelectSeq(generated_questions, IsScreening)
    /\ \A p \in 1..Len(Visible) :
          IsScreening(Visible[p]) =>
              LET block == OpenBlock(Visible[p])
                  after == p + Len(block) + 1
              IN  /\ after <= Len(Visible) + 1
                  /\ SubSeq(Visible, p + 1, p + Len(block)) = block
                  /\ after <= Len(Visible) => IsScreening(Visible[after])

\* both subcategories open, the compiled list naming the items in another
\* order than their screening questions
C2_Witness ==
    /\ generated_questions = BrainSpineQuestions
    /\ Recorded("screening_0", "Yes")
    /\ Recorded("screening_1", "Yes")
    /\ Len(Visible) = 4
    /\ Visible[2].id = "specific_0_0"

IndexOf(x, seq) == CHOOSE i \in 1..Len(seq) : seq[i] = x

ScreeningList == SelectSeq(generated_questions, IsScreening)

Dependents(id) ==
    SelectSeq(generated_questions, LAMBDA q : IsSpecific(q) /\ q.depends_on = id)

\* the question the page presents: <<q>>, or <<>> when there is none
Presented ==
    IF checklist_generated /\ current_question < Len(Visible)
    THEN <<Visible[current_question + 1]>>
    ELSE <<>>

\* the screening question after the k-th one, or <<>>: the session completes
ScreeningAfter(k) ==
    IF k < Len(ScreeningList) THEN <<ScreeningList[k + 1]>> ELSE <<>>

\* the question that has to follow q, answered with a
ExpectedNext(q, a) ==
    IF IsScreening(q)
    THEN IF a = "Yes" /\ Dependents(q.id) # <<>>
         THEN <<Dependents(q.id)[1]>>
         ELSE ScreeningAfter(IndexOf(q, ScreeningList))
    ELSE LET block == Dependents(q.depends_on)
             j == IndexOf(q, block)
             k == CHOOSE n \in 1..Len(ScreeningList) : ScreeningList[n].id = q.depends_on
         IN  IF j < Len(block) THEN <<block[j + 1]>> ELSE ScreeningAfter(k)

\* a step that accepts the answer to the presented question
AcceptedSubmission ==
    /\ Presented # <<>>
    /\ current_question' = current_question + 1
    /\ generated_questions' = generated_questions

C4_Keys ==
    /\ Len(answers) = current_question
    /\ \A i \in 1..Len(answers) : answers[i].key = i - 1

\* what a step may do to the stored answers
C4_Step ==
    \/ answers' = answers
    \/ /\ answers' = <<>>
       /\ current_question' = 0
       /\ ~checklist_generated' \/ ~checklist_generated
    \/ /\ Presented # <<>>
       /\ current_question' = current_question + 1
       /\ Len(answers') = Len(answers) + 1
       /\ SubSeq(answers', 1, Len(answers)) = answers
       /\ LET new == answers'[Len(answers')]
          IN  /\ new.key = current_question
              /\ new.val.item = Presented[1].id
              /\ new.val.question = Presented[1].question
              /\ new.val.answer \in AnswerInputs

\* C4: the number of stored answers is current_question and the keys are
\* q_0, q_1, ... in order; a step either leaves the stored answers alone, or
\* is a reset that empties them, or adds under q_<current_question> one
\* answer to the question presented at that position and advances
\* current_question by one; no stored answer is overwritten or removed.
C4_OneAnswerPerQuestion ==
    []C4_Keys /\ [][C4_Step]_vars

\* three answers stored, to the questions at positions 0, 1 and 2
C4_Witness ==
    /\ Len(answers) = 3
    /\ current_question = 3
    /\ answers[1].val.item = "screening_0"
    /\ answers[3].val.item = "specific_0_1"

\* the four fields of the answer session are empty
Cleared ==
    /\ generated_questions = <<>>
    /\ current_question = 0
    /\ answers = <<>>
    /\ screening_answers = <<>>

\* a step of "Start Over" or of an accepted "Save Case Data"
ResetStep ==
    \/ StartOver
    \/ \E case_id \in CaseIds, age \in AgeInputs : age # "" /\ SaveCase(case_id, age)

\* C9: "Start Over" and the saving of a case each leave, in the one step,
\* the compiled question list empty, current_question 0, answers empty and
\* screening_answers empty; and in no reachable state without a checklist
\* does one of the four fields still hold a value of the previous session.
C9_AtomicReset ==
    [](~checklist_generated => Cleared) /\ [][ResetStep => Cleared']_vars

\* "Start Over" after a completed session with a positive finding: the four
\* fields are empty, the findings of that session are still stored
C9_Witness ==
    /\ case_metadata # None
    /\ ~checklist_generated
    /\ Cleared
    /\ findings # None
    /\ findings # Some(<<>>)

----------------------------------------------------------------------------
(* Properties of report generation *)

\* a non-blank text
NonBlank(d) == \E i \in 1..Len(d) : ~IsSpace(d[i])

SubcategoryOf(r) == Get(r, "subcategory", "Other")

\* the positions of fs whose record has subcategory sc
Under(fs, sc) == {i \in 1..Len(fs) : SubcategoryOf(fs[i]) = sc}

\* C6: every record passed as a finding has its entry in exactly one bucket
\* of findings_by_region, the bucket of its subcategory: each bucket holds
\* one entry per finding of that subcategory, in order, with the finding's
\* question and with non-blank details, which are the stripped details of
\* the finding or, when those are empty or blank, the marker
\* 'Present (no additional details provided)'.
C6_NoFindingDropped ==
    observations_call # None =>
        LET fs == observations_call[1].findings
            g == observations_call[1].findings_by_region
        IN  /\ DOMAIN g = {SubcategoryOf(fs[i]) : i \in 1..Len(fs)}
            /\ \A sc \in DOMAIN g : Len(g[sc]) = Cardinality(Under(fs, sc))
            /\ \A i \in 1..Len(fs) :
                  LET sc == SubcategoryOf(fs[i])
                      k == Cardinality({j \in Under(fs, sc) : j <= i})
                      e == g[sc][k]
                  IN  /\ e.question = fs[i].question
                      /\ NonBlank(e.details)
                      /\ e.details = IF NonBlank(fs[i].details)
                                     THEN strip(fs[i].details)
                                     ELSE NoDetailsMarker

\* two findings of one subcategory, the first with blank details, the second
\* with details: both are in the bucket, the first with the marker
C6_Witness ==
    /\ observations_call # None
    /\ LET fs == observations_call[1].findings
           g == observations_call[1].findings_by_region
       IN  /\ Len(fs) = 2
           /\ fs[1].details = <<Space>>
           /\ fs[2].details = <<Space, "a", Space>>
           /\ SubcategoryOf(fs[1]) = SubcategoryOf(fs[2])
           /\ Len(g[SubcategoryOf(fs[1])]) = 2
           /\ g[SubcategoryOf(fs[1])][1].details = NoDetailsMarker
           /\ g[SubcategoryOf(fs[1])][2].details = <<"a">>

\* the record r has an entry in the grouping g, under its subcategory
InGrouping(g, r) ==
    /\ SubcategoryOf(r) \in DOMAIN g
    /\ \E j \in 1..Len(g[SubcategoryOf(r)]) :
          g[SubcategoryOf(r)][j].question = Get(r, "question", "")

ReportStep == report_vars' # report_vars

\* every visible question of the session is answered
Completed ==
    /\ checklist_generated
    /\ generated_questions # <<>>
    /\ current_question >= Len(all_questions(generated_questions, screening_answers))

\* C5: a report generated from a completed session with a 'Yes' answer calls
\* the impression model with one line for every positive finding of the
\* session, and the impression is then not the fixed text
\* 'No significant abnormalities identified on the current study.'.
C5_ImpressionGetsPositives ==
    [][(ReportStep /\ Completed /\ positive_findings(answers) # <<>>) =>
          /\ impression_call'[1].invoked
          /\ Len(impression_call'[1].findings_text) = Len(positive_findings(answers))
          /\ generated_report'[1].report.impression # NoAbnormalityText]_vars

\* C8: a report generated from a completed session hands the observations
\* model a negative grouping with an entry, under its subcategory, for every
\* answer of the session recorded with 'No'.
C8_NegativesSupplied ==
    [][(ReportStep /\ Completed) =>
          \A i \in 1..Len(answers) :
              answers[i].val.answer = "No" =>
                  InGrouping(observations_call'[1].negative_findings_by_region,
                             answers[i].val)]_vars

\* C10: the findings a report is generated from are the 'Yes' answers of
\* the answers map at the time of the generation.
C10_FindingsFollowAnswers ==
    [][ReportStep =>
          /\ observations_call'[1].findings = positive_findings(answers)
          /\ impression_call'[1].findings = positive_findings(answers)
          /\ generated_report'[1].findings = positive_findings(answers)]_vars

----------------------------------------------------------------------------
(* Properties of question compilation *)

\* a dict with the keys of a question of one of the two types
IsQuestionRecord(q) ==
    /\ isinstance_dict(q)
    /\ Get(q, "type", NoneStr) \in {"screening", "specific"}
    /\ {"id", "category", "subcategory", "question"} \subseteq DOMAIN q

\* the page shows a question to answer
QuestionPresented ==
    /\ checklist_generated
    /\ ~page_stopped(generated_questions)
    /\ current_question < Len(all_questions(generated_questions, screening_answers))

\* C11: whatever the model answered to the compilation request, the session
\* with a checklist holds a compiled list that consists of question records
\* (the list of the model, or the fallback set), and at its start the page
\* presents a question.
C11_CompilationNeverStops ==
    checklist_generated =>
        /\ questions_generated
        /\ \A i \in 1..Len(generated_questions) : IsQuestionRecord(generated_questions[i])
        /\ current_question = 0 => QuestionPresented

\* C12: every specific question of the compiled list names, with
\* depends_on, a screening question of the same list that has its category
\* and its subcategory.
C12_DependsOnResolves ==
    \A i \in 1..Len(generated_questions) :
        LET q == generated_questions[i]
        IN  (isinstance_dict(q) /\ IsSpecific(q)) =>
                \E j \in 1..Len(generated_questions) :
                    LET sq == generated_questions[j]
                    IN  /\ isinstance_dict(sq)
                        /\ IsScreening(sq)
                        /\ Get(sq, "id", "") = Get(q, "depends_on", NoneStr)
                        /\ Get(sq, "category", "") = Get(q, "category", NoneStr)
                        /\ Get(sq, "subcategory", "") = Get(q, "subcategory", NoneStr)

\* C13: in the visible list, every specific question between a screening
\* question and the next screening question has the subcategory of that
\* screening question.
C13_NoForeignSubcategory ==
    \A p \in 1..Len(Visible) :
        \A k \in (p + 1)..Len(Visible) :
            (/\ IsScreening(Visible[p])
             /\ \A m \in (p + 1)..k : IsSpecific(Visible[m]))
                => Get(Visible[k], "subcategory", NoneStr)
                       = Get(Visible[p], "subcategory", "")

\* one screening question, distinct ids, every other question a specific
\* question that depends on the screening question and has its category
\* and subcategory
StructurallyValid(qs) ==
    /\ Len(SelectSeq(qs, IsScreening)) = 1
    /\ \A i, j \in 1..Len(qs) : i # j => qs[i].id # qs[j].id
    /\ \A i \in 1..Len(qs) :
          \/ IsScreening(qs[i])
          \/ /\ IsSpecific(qs[i])
             /\ \E j \in 1..Len(qs) :
                   /\ IsScreening(qs[j])
                   /\ qs[i].depends_on = qs[j].id
                   /\ qs[i].category = qs[j].category
                   /\ qs[i].subcategory = qs[j].subcategory

\* C14: the fallback question set, of ui/main.py and of ct_ui_new.py, is
\* structurally valid, and so is the compiled list of a session that fell
\* back to it.
C14_FallbackValid ==
    /\ StructurallyValid(get_fallback_questions)
    /\ StructurallyValid(get_fallback_questions_ct_ui_new)
    /\ (questions_generated /\ generated_questions = get_fallback_questions)
          => StructurallyValid(generated_questions)

\* a session on the fallback set, its four items shown after 'Yes'
C14_Witness ==
    /\ checklist_generated
    /\ generated_questions = FALLBACK_QUESTIONS
    /\ Recorded("screening_0", "Yes")
    /\ Len(Visible) = 5
    /\ current_question = 5

----------------------------------------------------------------------------
(* Properties of the report sections *)

\* C17: whatever the two model calls do, generate_complete_report returns
\* a report with history, technique, observations and impression; the
\* observations are the model's text, or the observations error text when
\* that call raised, whatever the impression call did; the impression is
\* the model's text, or the impression error text when that call was made
\* and raised, whatever the observations call did.
C17_SectionFailuresContained ==
    [][\A all_answers_arg \in AllAnswersArgs(findings[1]),
          obs_llm \in LLMOutcomes, imp_llm \in LLMOutcomes :
          CallGenerateCompleteReport(all_answers_arg, obs_llm, imp_llm) =>
              LET r == generated_report'[1].report
              IN  /\ DOMAIN r = {"history", "technique", "observations", "impression"}
                  /\ r.history = case_metadata[1].clinical_history
                  /\ r.technique = TECHNIQUE_TEMPLATES[case_metadata[1].mod_study]
                  /\ r.observations = IF obs_llm = "raise" THEN ObservationsErrorText
                                      ELSE ObservationsLLMText
                  /\ r.impression = IF ~impression_call'[1].invoked THEN NoAbnormalityText
                                    ELSE IF imp_llm = "raise" THEN ImpressionErrorText
                                    ELSE ImpressionLLMText]_vars

\* the observations call raised, the impression call was made and answered
C17_Witness ==
    /\ generated_report # None
    /\ impression_call[1].invoked
    /\ generated_report[1].report.observations = ObservationsErrorText
    /\ generated_report[1].report.impression = ImpressionLLMText

----------------------------------------------------------------------------
(* Properties of checklist generation *)

\* a step in which generate_checklist was called
ChecklistCallStep == checklist_call' # None

\* C18: when no chunk is retrieved for the study type, generate_checklist
\* returns the error result that names the study type of the case, makes no
\* model call, and no checklist is stored.
C18_NoChunksIsError ==
    [][(ChecklistCallStep /\ checklist_call'[1].study_chunks = <<>>) =>
          /\ checklist_call'[1].result
                = [error |-> <<"No chunks found for study: ", case_metadata[1].mod_study>>]
          /\ checklist_call'[1].llm_calls = 0
          /\ ~checklist_generated'
          /\ checklist' = None]_vars

\* the store had nothing for the study type ct_head
C18_Witness ==
    /\ checklist_call # None
    /\ checklist_call[1].study_chunks = <<>>
    /\ checklist_call[1].result = [error |-> <<"No chunks found for study: ", "ct_head">>]
    /\ ~checklist_generated

\* categories with a name and subcategories, subcategories with a name and
\* items
StructurallyValidChecklist(c) ==
    /\ "checklist" \in DOMAIN c
    /\ c.checklist # <<>>
    /\ \A i \in 1..Len(c.checklist) :
          /\ {"category", "subcategories"} \subseteq DOMAIN c.checklist[i]
          /\ \A j \in 1..Len(c.checklist[i].subcategories) :
                {"name", "items"} \subseteq DOMAIN c.checklist[i].subcategories[j]

\* C19: a call of generate_checklist makes at most one model call, and its
\* result is a structurally valid checklist or an error result, after which
\* no checklist is stored.
C19_MalformedIsTerminal ==
    [][ChecklistCallStep =>
          /\ checklist_call'[1].llm_calls <= 1
          /\ \/ StructurallyValidChecklist(checklist_call'[1].result)
             \/ /\ "error" \in DOMAIN checklist_call'[1].result
                /\ ~checklist_generated'
                /\ checklist' = None]_vars

\* C20: without a generated checklist no checklist is stored, no question
\* list is compiled and no question is presented; a call that returns an
\* error result leaves the session as it is; and checklist_generated
\* becomes true only in a step whose call returned a result without error,
\* which is then the stored checklist.
C20_FailureHaltsWorkflow ==
    /\ [](~checklist_generated =>
            /\ checklist = None
            /\ ~questions_generated
            /\ generated_questions = <<>>
            /\ ~QuestionPresented)
    /\ [][(ChecklistCallStep /\ "error" \in DOMAIN checklist_call'[1].result) =>
             (~checklist_generated' /\ UNCHANGED session_vars)]_vars
    /\ [][(~checklist_generated /\ checklist_generated') =>
             /\ ChecklistCallStep
             /\ "error" \notin DOMAIN checklist_call'[1].result
             /\ checklist' = Some(checklist_call'[1].result)]_vars

\* a failed generation after "Start Over": nothing of a session is there
C20_Witness ==
    /\ checklist_call # None
    /\ checklist_call[1].llm_calls = 1
    /\ "error" \in DOMAIN checklist_call[1].result
    /\ ~checklist_generated
    /\ findings # None
    /\ findings # Some(<<>>)

----------------------------------------------------------------------------
(* Properties of the local question compiler *)

\* the categories of the checklist that the compiler does not skip
ClinicalCategories ==
    SelectSeq(checklist[1].checklist,
              LAMBDA c : ~\E skip \in skip_categories : Contains(skip, c.category))

\* the item yields a question
Yields(item) ==
    convert_item_to_clinical_question(item, "category", "subcategory", "id") # None

\* the pairs <<category, subcategory>> of positions of the subcategories of
\* the clinical categories that have an item for which P holds
SubcategoriesWith(P(_)) ==
    {<<i, j>> \in (1..Len(ClinicalCategories)) \X (1..MaxSubcategories) :
        /\ j <= Len(ClinicalCategories[i].subcategories)
        /\ \E k \in 1..Len(ClinicalCategories[i].subcategories[j].items) :
              P(ClinicalCategories[i].subcategories[j].items[k])}

\* the positions of the items of the clinical categories for which P holds
ItemsWith(P(_)) ==
    {<<i, j, k>> \in (1..Len(ClinicalCategories)) \X (1..MaxSubcategories)
                     \X (1..(MaxItems + 1)) :
        /\ j <= Len(ClinicalCategories[i].subcategories)
        /\ k <= Len(ClinicalCategories[i].subcategories[j].items)
        /\ P(ClinicalCategories[i].subcategories[j].items[k])}

\* C15: the compiled list has as many screening questions as the checklist
\* has subcategories with at least one item that yields a question.
C15_ScreeningPerSubcategory ==
    questions_generated =>
        Len(SelectSeq(generated_questions, IsScreening))
            = Cardinality(SubcategoriesWith(Yields))

\* the item is not procedural and yields a question
YieldsAndIsClinical(item) == ~IsProcedural(item) /\ Yields(item)

\* C16: the specific questions of the compiled list are as many as the
\* items that are not procedural and yield a question: no specific question
\* comes from a procedural item.
C16_ProceduralItemsSkipped ==
    questions_generated =>
        Len(SelectSeq(generated_questions, IsSpecific))
            = Cardinality(ItemsWith(YieldsAndIsClinical))

----------------------------------------------------------------------------
(* Properties of question refinement *)

RefinedText == content_strip(RefinementContent)

\* the ids of the questions presented before and after the step
PresentedIds ==
    {Presented[i].id : i \in 1..Len(Presented)}
    \cup {Presented'[i].id : i \in 1..Len(Presented')}

\* the step keeps the compiled list of the session
KeepsCompiledList == questions_generated /\ questions_generated'

\* C21: a step that keeps the compiled list changes no question but a
\* specific question that is presented, and nothing of it but its text: the
\* keys and every field other than 'question' stay.  The text changes only
\* in a step that sets a refined flag: after a refinement call that raised,
\* the question has the text it had.
C21_RefinementChangesTextOnly ==
    [][KeepsCompiledList =>
          /\ Len(generated_questions') = Len(generated_questions)
          /\ \A i \in 1..Len(generated_questions) :
                generated_questions'[i] # generated_questions[i] =>
                    /\ IsSpecific(generated_questions[i])
                    /\ generated_questions[i].id \in PresentedIds
                    /\ DOMAIN generated_questions'[i] = DOMAIN generated_questions[i]
                    /\ \A k \in DOMAIN generated_questions[i] \ {"question"} :
                          generated_questions'[i][k] = generated_questions[i][k]
                    /\ \E n \in refined' \ refined :
                          Visible'[n + 1].id = generated_questions[i].id]_vars

\* the first item refined, the refinement of the second one failed: it is
\* presented with the text of the compiler
C21_Witness ==
    /\ questions_generated
    /\ current_question = 2
    /\ refined = {1}
    /\ generated_questions[2].question = RefinedText
    /\ Presented # <<>>
    /\ Presented[1].id = "specific_0_1"
    /\ Presented[1].question = FALLBACK_QUESTIONS[3].question

\* C22: a session starts from the question texts of the compiler: before
\* its first answer the compiled list of a session that fell back is the
\* hardcoded fallback set, and the list get_fallback_questions returns has
\* the hardcoded texts.
C22_SessionsStartFromCompilerTexts ==
    (questions_generated /\ current_question = 0 /\ answers = <<>>) =>
        /\ generated_questions = FALLBACK_QUESTIONS
        /\ get_fallback_questions = FALLBACK_QUESTIONS

\* the ids of a list of questions, in order
Ids(qs) == [i \in 1..Len(qs) |-> Get(qs[i], "id", NoneStr)]

\* a run of the Interactive Checklist page without a button pressed
PageRunStep ==
    \E refinement \in RefinementResponses : ViewInteractiveChecklist(refinement)

\* C23: a run of the page that only derives the visible list leaves answers,
\* screening_answers and current_question as they are, and the list derived
\* after it is the list derived before it: the same questions in the same
\* order, and the same list if the compiled list is the same.
C23_DerivationIdempotent ==
    [][PageRunStep =>
          /\ answers' = answers
          /\ screening_answers' = screening_answers
          /\ current_question' = current_question
          /\ Ids(Visible') = Ids(Visible)
          /\ generated_questions' = generated_questions => Visible' = Visible]_vars

\* the block of the screening question is open and three answers are in
C23_Witness ==
    /\ questions_generated
    /\ Recorded("screening_0", "Yes")
    /\ Len(Visible) = 5
    /\ Len(answers) = 3
    /\ current_question = 3
    /\ refined = {3}

----------------------------------------------------------------------------
(* Properties of the traversal of the visible list *)

\* the questions of the compiled list that have to be answered: the
\* screening questions and the specific questions whose screening question
\* has the recorded answer 'Yes'
QuestionsToAnswer ==
    SelectSeq(generated_questions,
              LAMBDA q : \/ IsScreening(q)
                         \/ IsSpecific(q) /\ Recorded(Get(q, "depends_on", NoneStr), "Yes"))

\* C24: current_question never exceeds the length of the visible list, and
\* the session is completed after as many accepted submissions as there are
\* screening questions and specific questions whose screening question was
\* answered 'Yes'.
C24_CompletesAfterVisibleCount ==
    (checklist_generated /\ questions_generated /\ ~page_stopped(generated_questions)) =>
        /\ current_question <= Len(Visible)
        /\ Completed => current_question = Len(QuestionsToAnswer)

\* C28: in the completed session the recorded answers are those of the
\* visible list: one answer per position, recorded for the question at that
\* position, and no answer beyond the list.
C28_EveryVisibleAnsweredOnce ==
    (Completed /\ ~page_stopped(generated_questions)) =>
        /\ Len(answers) = Len(Visible)
        /\ \A i \in 1..Len(Visible) :
              /\ \E n \in 1..Len(answers) : answers[n].key = answer_key(i - 1)
              /\ DictGet(answers, answer_key(i - 1)).item = Get(Visible[i], "id", NoneStr)

----------------------------------------------------------------------------
(* Properties of answer submission and of the report held by the session *)

\* a submission of 'Yes' without details: the form is submitted (no other
\* button acts on a presented question and keeps the session)
RejectedSubmission ==
    \E details \in DetailInputs, before \in RefinementFailures, after \in RefinementFailures :
        /\ strip(details) = <<>>
        /\ SubmitAnswer("Yes", details, before, after)

\* C29: a submission of 'Yes' with empty or blank details changes none of
\* answers, screening_answers and current_question, and the same question
\* is presented after it; every recorded 'Yes' answer has details.
C29_YesNeedsDetails ==
    [][/\ RejectedSubmission =>
             /\ answers' = answers
             /\ screening_answers' = screening_answers
             /\ current_question' = current_question
             /\ Presented' = Presented
       /\ \A n \in 1..Len(answers') :
             answers'[n].val.answer = "Yes" => answers'[n].val.details # <<>>]_vars

\* a 'Yes' with details is recorded and the next question is presented
C29_Witness ==
    /\ checklist_generated
    /\ current_question = 1
    /\ Presented # <<>>
    /\ Len(answers) = 1
    /\ answers[1].val.answer = "Yes"
    /\ answers[1].val.details = <<"a">>

\* C30: a generated report held in the session is the report of the
\* current case.
C30_ReportOfCurrentCase ==
    generated_report # None =>
        /\ case_metadata # None
        /\ generated_report[1].case_id = case_metadata[1].case_id

----------------------------------------------------------------------------
(* Properties of the earlier UI variant *)

\* C25: when the checklist of a case has been generated and no answer has
\* been given, the session of ct_ui_new.py holds no screening answers and
\* its visible list shows no specific question.
C25_NewCaseStartsClean ==
    (checklist_generated /\ current_question = 0 /\ answers = <<>>) =>
        /\ screening_answers = <<>>
        /\ \A i \in 1..Len(VisibleCtUiNew) : ~IsSpecific(VisibleCtUiNew[i])

----------------------------------------------------------------------------
(* Properties of InteractiveQASystem *)

\* C26: an answer recorded for a checklist item stays: after every step the
\* item has the answer it had, so that a finding recorded as positive is
\* reported as positive.
C26_RecordedAnswerStays ==
    [][\A n \in 1..Len(qa_session[1].answers) :
          \E m \in 1..Len(qa_session'[1].answers) :
              /\ qa_session'[1].answers[m].key = qa_session[1].answers[n].key
              /\ qa_session'[1].answers[m].val.answer
                     = qa_session[1].answers[n].val.answer]_vars

\* C27: alternating get_next_question and process_answer eventually
\* yields status 'completed'.
C27_EventuallyCompleted ==
    <>(Get(qa_session[1].returned, "status", NoneStr) = "completed")

====
